---- MODULE Spec2Model ----
(***************************************************************************)
(* SQL semantic validation engine (src/dev2): dialect-aware identifier     *)
(* extraction, phantom table/column/function detection and validation.     *)
(*                                                                         *)
(* Strings.  A Python str is modelled as the sequence of its dot-separated *)
(* segments; a segment is a record [w, c] holding the case-folded word w   *)
(* and the letter case c it is written in: "l" all lower, "u" all upper,   *)
(* "m" one fixed mixed spelling (Capitalised).  So str.lower(), str.upper()*)
(* and str.split(".") are computed, and "Orders" # "orders".               *)
(* f"{a}.{b}" is the concatenation a \o b of the segment sequences.        *)
(***************************************************************************)
EXTENDS Integers, Sequences, FiniteSets, TLC

----------------------------------------------------------------------------
(* Bounds *)

\* a structural tree holds at most MaxNodes table/column/function/alias nodes
MaxNodes == 3

\* a structural tree of a join query holds at most MaxJoins Join nodes
MaxJoins == 1

----------------------------------------------------------------------------
(* Python str *)

W(w) == << [w |-> w, c |-> "l"] >>
M(w) == << [w |-> w, c |-> "m"] >>
U(w) == << [w |-> w, c |-> "u"] >>

\* the empty string, also what sqlglot returns for an absent qualifier
Empty == << >>

\* Python's None
None == "None"

\* words without letters: lower() and upper() leave them as they are
Caseless == { "*" }

Lower(s) ==
  [i \in DOMAIN s |-> IF s[i].w \in Caseless THEN s[i] ELSE [s[i] EXCEPT !.c = "l"]]
Upper(s) ==
  [i \in DOMAIN s |-> IF s[i].w \in Caseless THEN s[i] ELSE [s[i] EXCEPT !.c = "u"]]

\* s.split(".")[-1]
LastSegment(s) == << s[Len(s)] >>

\* "." in s
HasDot(s) == Len(s) > 1

Max(a, b) == IF a >= b THEN a ELSE b

\* the orders in which list(set(...)) may enumerate the set S
Orders(S) ==
  { q \in [1..Cardinality(S) -> S] : \A i, j \in DOMAIN q : q[i] = q[j] => i = j }

Range(q) == { q[i] : i \in DOMAIN q }

----------------------------------------------------------------------------
(* Dialect table, src/dev2/sql_parser.py *)

DIALECT_MAP ==
  [ postgres |-> "postgres", postgresql |-> "postgres", sqlite |-> "sqlite",
    duckdb |-> "duckdb", bigquery |-> "bigquery", snowflake |-> "snowflake",
    clickhouse |-> "clickhouse", mysql |-> "mysql" ] @@ ("" :> None)

BigqueryWords ==
  { "safe_divide", "safe_multiply", "safe_negate", "safe_add", "safe_subtract",
    "date_diff", "date_add", "date_sub", "date_trunc", "datetime_diff",
    "timestamp_diff", "timestamp_add", "timestamp_sub", "timestamp_trunc",
    "parse_date", "parse_datetime", "parse_timestamp", "format_date",
    "array_agg", "array_length", "array_to_string", "generate_array",
    "struct", "unnest", "array", "current_date", "current_timestamp",
    "ifnull", "nullif", "coalesce", "if", "case",
    "regexp_contains", "regexp_extract", "regexp_replace",
    "json_extract", "json_extract_scalar", "json_query", "json_value",
    "st_geogpoint", "st_distance", "st_contains", "st_intersects",
    "approx_count_distinct", "approx_quantiles", "approx_top_count",
    "farm_fingerprint", "md5", "sha256", "sha512" }

BIGQUERY_FUNCTIONS ==
  { U(w) : w \in BigqueryWords } \cup
  { U("net") \o U("ip_from_string"), U("net") \o U("safe_ip_from_string"),
    U("net") \o U("ip_to_string") }

SnowflakeWords ==
  { "dateadd", "datediff", "date_trunc", "date_part", "dayname", "monthname",
    "timeadd", "timediff", "timestampadd", "timestampdiff",
    "to_date", "to_timestamp", "to_time", "to_char", "to_varchar",
    "try_to_date", "try_to_timestamp", "try_to_number",
    "array_agg", "array_size", "array_slice", "array_cat", "array_compact",
    "object_construct", "object_keys", "object_agg",
    "parse_json", "try_parse_json", "get_path", "flatten",
    "iff", "ifnull", "nvl", "nvl2", "nullif", "coalesce", "zeroifnull",
    "regexp_like", "regexp_replace", "regexp_substr", "regexp_count",
    "split", "split_part", "strtok", "strtok_to_array",
    "hash", "md5", "sha1", "sha2",
    "listagg", "within group", "qualify",
    "ratio_to_report", "cume_dist", "percent_rank", "ntile",
    "current_database", "current_schema", "current_warehouse",
    "system$typeof", "typeof", "is_integer", "is_decimal" }

SNOWFLAKE_FUNCTIONS == { U(w) : w \in SnowflakeWords }

CommonWords ==
  { "count", "sum", "avg", "min", "max", "abs", "round", "ceil", "floor",
    "upper", "lower", "trim", "ltrim", "rtrim", "length", "substring", "concat",
    "replace", "cast", "convert", "coalesce", "nullif", "ifnull",
    "now", "current_date", "current_time", "current_timestamp",
    "year", "month", "day", "hour", "minute", "second",
    "row_number", "rank", "dense_rank", "lag", "lead", "first_value",
    "last_value", "over", "partition", "order" }

COMMON_FUNCTIONS == { U(w) : w \in CommonWords }

\* A dialect argument: the text w (lower-cased), the letter case c it is
\* written in, and whether it carries surrounding blanks.
DialectStr(w, c, pad) == [w |-> w, c |-> c, pad |-> pad]

\* the text of a dialect string: a lower-case string without surrounding
\* blanks is its word, any other spelling is marked as a text of its own
DialectText(d) ==
  IF d.c = "l" /\ ~d.pad THEN d.w
  ELSE d.c \o ":" \o d.w \o (IF d.pad THEN " " ELSE "")

\* DialectLower that leaves the letter case as written
DialectLower_AsWritten(d) == d

\* str.lower() on a dialect string
DialectLower(d) == [d EXCEPT !.c = "l"]

\* str.strip() on a dialect string
DialectStrip(d) == [d EXCEPT !.pad = FALSE]

\* DIALECT_MAP.get(key, default): the keys are lower-case, without blanks
DialectMapGet(key, default) ==
  IF DialectText(key) \in DOMAIN DIALECT_MAP
  THEN DIALECT_MAP[DialectText(key)]
  ELSE default

\* _normalize_dialect with DIALECT_MAP.get(dialect_lower): no default
_normalize_dialect_NoDefault(dialect) ==
  IF dialect.w = "" /\ ~dialect.pad
  THEN None
  ELSE LET dialect_lower == DialectStrip(DialectLower(dialect))
       IN  DialectMapGet(dialect_lower, None)

\* SQLParser._normalize_dialect
_normalize_dialect(dialect) ==
  IF dialect.w = "" /\ ~dialect.pad   \* not dialect
  THEN None
  ELSE LET dialect_lower == DialectStrip(DialectLower(dialect))
       IN  DialectMapGet(dialect_lower, DialectText(dialect_lower))

\* SQLParser.default_dialect of the parser a detector constructs: SQLParser()
default_dialect == _normalize_dialect(DialectStr("", "l", FALSE))

\* SQLParser.get_dialect_functions
get_dialect_functions(dialect) ==
  LET normalized == _normalize_dialect(dialect)
  IN  IF normalized = "bigquery" THEN COMMON_FUNCTIONS \cup BIGQUERY_FUNCTIONS
      ELSE IF normalized = "snowflake" THEN COMMON_FUNCTIONS \cup SNOWFLAKE_FUNCTIONS
      ELSE COMMON_FUNCTIONS

\* fallback_dialects of SQLParser._parse_with_fallback
fallback_dialects == << "postgres", "bigquery", "snowflake", None >>

----------------------------------------------------------------------------
(* Schema Model: the SchemaSnapshot the callers pass in.  Its class is not   *)
(* part of src/; the engine reads schema.tables (a dict: name -> table with  *)
(* .columns, each with .name and .foreign_key), schema.functions and calls   *)
(* schema.has_table(name).                                                   *)

\* a column; an absent foreign_key (None) is Empty, both are falsy in Python
Column(name, foreign_key) == [name |-> name, foreign_key |-> foreign_key]

\* a table of schema.tables
TableInfo(columns) == [is_none |-> FALSE, columns |-> columns]

\* the None a failed schema.tables.get returns
NoTableInfo == [is_none |-> TRUE, columns |-> << >>]

\* schema.tables.get(key): the dict is keyed by the stored spelling
TablesGet(schema, key) ==
  IF key \in DOMAIN schema.tables THEN schema.tables[key] ELSE NoTableInfo

\* schema.has_table(name): existence by exact or case-normalized name (spec 3)
has_table(schema, name) ==
  name \in DOMAIN schema.tables \/ Lower(name) \in DOMAIN schema.tables

\* Python's `a or b` on two dict lookups
OrElse(a, b) == IF ~a.is_none THEN a ELSE b

SchemaOf(tables, functions) == [tables |-> tables, functions |-> functions]

NoTables == [k \in {} |-> NoTableInfo]

\* The schemas a call may be given.
Schemas ==
  { SchemaOf(W("t") :> TableInfo(<< Column(W("c"), Empty), Column(M("d"), Empty) >>), {}),
    SchemaOf(W("t") :> TableInfo(<< Column(W("c"), Empty) >>)
             @@ W("u") :> TableInfo(<< Column(W("c"), Empty), Column(W("x"), Empty) >>),
             { W("myf") }),
    SchemaOf((W("s") \o W("t")) :> TableInfo(<< Column(W("c"), Empty) >>), {}),
    SchemaOf(M("t") :> TableInfo(<< Column(M("c"), Empty) >>), { U("position") }) }

\* The dialect arguments a call may be given: "", " Snowflake ", "BIGQUERY".
Dialects ==
  { DialectStr("", "l", FALSE), DialectStr("snowflake", "m", TRUE),
    DialectStr("bigquery", "u", FALSE) }

----------------------------------------------------------------------------
(* Structural tree: the nodes sqlglot's find_all yields.  A node carries the *)
(* attributes the engine reads; an attribute a node kind lacks is Empty.     *)
(* occ tells apart the occurrences of one reference written several times.   *)

Node(kind, name, table, db, catalog, sql_name, alias) ==
  [kind |-> kind, name |-> name, table |-> table, db |-> db,
   catalog |-> catalog, sql_name |-> sql_name, alias |-> alias, occ |-> 1]

\* exp.Table: table.name, table.db, table.catalog
TableNode(catalog, db, name) == Node("Table", name, Empty, db, catalog, Empty, Empty)
\* exp.Column: col.name, col.table
ColumnNode(table, name) == Node("Column", name, table, Empty, Empty, Empty, Empty)
\* exp.Func: func.sql_name() and func.name, the text of its first argument
\* when that is an identifier, a literal or a star, else ""
FuncNode(sql_name, name) == Node("Func", name, Empty, Empty, Empty, sql_name, Empty)
\* exp.Alias: alias.alias and alias.this.name
AliasNode(alias, name) == Node("Alias", name, Empty, Empty, Empty, Empty, alias)

\* a further occurrence of the reference n in the same statement
Again(n) == [n EXCEPT !.occ = 2]

ANONYMOUS == U("anonymous")

TableNodes ==
  { TableNode(Empty, Empty, W("t")), TableNode(Empty, Empty, M("t")),
    TableNode(Empty, W("s"), W("t")), TableNode(Empty, Empty, W("g")),
    TableNode(W("k"), W("s"), W("g")), Again(TableNode(Empty, Empty, W("g"))) }

ColumnNodes ==
  { ColumnNode(Empty, W("c")), ColumnNode(Empty, M("c")), ColumnNode(Empty, W("x")),
    ColumnNode(W("t"), W("c")), ColumnNode(M("t"), M("c")), ColumnNode(W("t"), W("x")),
    ColumnNode(W("a"), W("c")) }

FuncNodes ==
  { FuncNode(U("count"), Empty),          \* COUNT(c)
    FuncNode(U("count"), W("*")),         \* COUNT(*)
    FuncNode(U("if"), Empty),             \* IF(c > 0, c, d)
    FuncNode(ANONYMOUS, W("myf")),        \* myf(c)
    FuncNode(ANONYMOUS, Empty),
    FuncNode(ANONYMOUS, W("charindex")) } \* charindex(c, d)

AliasNodes == { AliasNode(W("a"), W("t")) }

AllNodes == TableNodes \cup ColumnNodes \cup FuncNodes \cup AliasNodes

\* the subsets of S with at most k elements
RECURSIVE SubsetsUpTo(_, _)
SubsetsUpTo(S, k) ==
  IF k = 0 THEN { {} }
  ELSE LET P == SubsetsUpTo(S, k - 1)
       IN  P \cup { p \cup { x } : p \in P, x \in S }

\* The trees a parse may produce: at most MaxNodes nodes.
Trees == SubsetsUpTo(AllNodes, MaxNodes)

NodesOf(tree, kind) == { n \in tree : n.kind = kind }

----------------------------------------------------------------------------
(* Identifier extraction, src/dev2/sql_parser.py *)

\* TableName with the schema qualifier put before the catalog
TableName_SchemaOutermost(table) ==
  LET n1 == IF table.catalog # Empty THEN table.catalog \o table.name ELSE table.name
  IN  IF table.db # Empty THEN table.db \o n1 ELSE n1

\* the name built for one exp.Table node
TableName(table) ==
  LET n1 == IF table.db # Empty THEN table.db \o table.name ELSE table.name
  IN  IF table.catalog # Empty THEN table.catalog \o n1 ELSE n1

\* the name built for one exp.Column node
ColumnName(col) ==
  IF col.table # Empty THEN col.table \o col.name ELSE col.name

\* the name built for one exp.Func node
FuncName(func) ==
  IF func.name # Empty THEN Upper(func.name) ELSE Upper(func.sql_name)

\* the aliases dict after the Alias nodes were visited in the order q
RECURSIVE AliasDict(_)
AliasDict(q) ==
  IF q = << >> THEN [k \in {} |-> Empty]
  ELSE LET n == q[Len(q)]
       IN  (n.alias :> n.name) @@ AliasDict(SubSeq(q, 1, Len(q) - 1))

IdentifierSet(tables, columns, functions, aliases) ==
  [tables |-> tables, columns |-> columns, functions |-> functions,
   aliases |-> aliases]

\* _extract_all_identifiers that appends the names without list(set(...))
_extract_all_identifiers_NoDedup(tree) ==
  { IdentifierSet([i \in DOMAIN t |-> TableName(t[i])],
                  [i \in DOMAIN c |-> ColumnName(c[i])],
                  [i \in DOMAIN f |-> FuncName(f[i])], AliasDict(a)) :
      t \in Orders(NodesOf(tree, "Table")),
      c \in Orders(NodesOf(tree, "Column")),
      f \in Orders(NodesOf(tree, "Func")),
      a \in Orders(NodesOf(tree, "Alias")) }

\* SQLParser._extract_all_identifiers: the IdentifierSets it may return for
\* a tree; list(set(...)) fixes no order
_extract_all_identifiers(tree) ==
  { IdentifierSet(t, c, f, AliasDict(a)) :
      t \in Orders({ TableName(n) : n \in NodesOf(tree, "Table") }),
      c \in Orders({ ColumnName(n) : n \in NodesOf(tree, "Column") }),
      f \in Orders({ FuncName(n) : n \in NodesOf(tree, "Func") }),
      a \in Orders(NodesOf(tree, "Alias")) }

----------------------------------------------------------------------------
(* Hallucination detector, src/dev2/hallucination_detector.py *)

\* IsPhantomTable that looks up the last segment only
IsPhantomTable_LastSegmentOnly(table, schema) ==
  ~has_table(schema, LastSegment(table))

\* the test of the loop of _detect_phantom_tables
IsPhantomTable(table, schema) ==
  LET table_name == LastSegment(table)
  IN  ~has_table(schema, table_name) /\ ~has_table(schema, table)

\* HallucinationDetector._detect_phantom_tables
_detect_phantom_tables(tables, schema) ==
  SelectSeq(tables, LAMBDA table : IsPhantomTable(table, schema))

\* what the first loop of _detect_phantom_columns adds for one table
ValidColumnsOfTable(table, schema) ==
  LET table_name == LastSegment(table)
      table_info == OrElse(TablesGet(schema, table_name), TablesGet(schema, table))
  IN  IF ~table_info.is_none
      THEN UNION { { Lower(table_info.columns[i].name),
                     Lower(table_name) \o Lower(table_info.columns[i].name) } :
                   i \in DOMAIN table_info.columns }
      ELSE {}

\* ValidColumnsOfAlias that adds nothing
ValidColumnsOfAlias_None(alias, actual, schema) == {}

\* what the second loop of _detect_phantom_columns adds for one alias
ValidColumnsOfAlias(alias, actual, schema) ==
  LET actual_table == TablesGet(schema, actual)
  IN  IF ~actual_table.is_none
      THEN { Lower(alias) \o Lower(actual_table.columns[i].name) :
             i \in DOMAIN actual_table.columns }
      ELSE {}

\* valid_columns of _detect_phantom_columns
ValidColumns(tables, aliases, schema) ==
  UNION { ValidColumnsOfTable(tables[i], schema) : i \in DOMAIN tables }
  \cup UNION { ValidColumnsOfAlias(a, aliases[a], schema) : a \in DOMAIN aliases }

\* FoundAnywhere that never searches the schema
FoundAnywhere_Never(col_name_only, schema) == FALSE

\* found_anywhere of _detect_phantom_columns
FoundAnywhere(col_name_only, schema) ==
  \E k \in DOMAIN schema.tables :
    \E i \in DOMAIN schema.tables[k].columns :
      Lower(schema.tables[k].columns[i].name) = col_name_only

\* IsPhantomColumn that compares the reference as written, not lower-cased
IsPhantomColumn_CaseSensitive(col, valid_columns, schema) ==
  IF col \notin valid_columns /\ LastSegment(col) \notin valid_columns
  THEN IF ~HasDot(col) THEN ~FoundAnywhere(LastSegment(col), schema) ELSE TRUE
  ELSE FALSE

\* the test of the checking loop of _detect_phantom_columns
IsPhantomColumn(col, valid_columns, schema) ==
  LET col_lower == Lower(col)
      col_name_only == Lower(LastSegment(col))
  IN  IF col_lower \notin valid_columns /\ col_name_only \notin valid_columns
      THEN IF ~HasDot(col) THEN ~FoundAnywhere(col_name_only, schema) ELSE TRUE
      ELSE FALSE

\* HallucinationDetector._detect_phantom_columns
_detect_phantom_columns(columns, tables, aliases, schema) ==
  LET valid_columns == ValidColumns(tables, aliases, schema)
  IN  SelectSeq(columns, LAMBDA col : IsPhantomColumn(col, valid_columns, schema))

\* aliases of _is_function_alias: the names mapped to another name
FUNCTION_ALIASES ==
  (U("if") :> U("iff")) @@ (U("substr") :> U("substring")) @@
  (U("len") :> U("length")) @@ (U("charindex") :> U("position"))

\* _is_function_alias that accepts every alias whatever its target
_is_function_alias_Unconditional(func, valid_functions) ==
  func = ANONYMOUS \/ func \in DOMAIN FUNCTION_ALIASES

\* HallucinationDetector._is_function_alias
_is_function_alias(func, valid_functions) ==
  IF func = ANONYMOUS THEN TRUE
  ELSE IF func \in DOMAIN FUNCTION_ALIASES
       THEN FUNCTION_ALIASES[func] \in valid_functions
       ELSE FALSE

\* valid_functions of _detect_phantom_functions
ValidFunctions(dialect, schema) ==
  get_dialect_functions(dialect) \cup { Upper(f) : f \in schema.functions }

\* the test of the loop of _detect_phantom_functions
IsPhantomFunction(func, valid_functions) ==
  LET func_upper == Upper(func)
  IN  func_upper \notin valid_functions
      /\ ~_is_function_alias(func_upper, valid_functions)

\* HallucinationDetector._detect_phantom_functions
_detect_phantom_functions(functions, dialect, schema) ==
  LET valid_functions == ValidFunctions(dialect, schema)
  IN  SelectSeq(functions, LAMBDA func : IsPhantomFunction(func, valid_functions))

\* Score that divides by total_identifiers itself
Score_NoMax(total_phantoms, total_identifiers) ==
  [num |-> total_phantoms, den |-> total_identifiers]

\* score of detect: the quotient total_phantoms / max(1, total_identifiers),
\* kept as numerator and denominator
Score(total_phantoms, total_identifiers) ==
  [num |-> total_phantoms, den |-> Max(1, total_identifiers)]

\* HallucinationReport whose total_hallucinations stays at the field's default
HallucinationReport_NoPostInit(phantom_tables, phantom_columns, phantom_functions, score) ==
  [phantom_tables |-> phantom_tables,
   phantom_columns |-> phantom_columns,
   phantom_functions |-> phantom_functions,
   total_hallucinations |-> 0,
   hallucination_score |-> score]

\* HallucinationReport with its __post_init__
HallucinationReport(phantom_tables, phantom_columns, phantom_functions, score) ==
  [phantom_tables |-> phantom_tables,
   phantom_columns |-> phantom_columns,
   phantom_functions |-> phantom_functions,
   total_hallucinations |->
     Len(phantom_tables) + Len(phantom_columns) + Len(phantom_functions),
   hallucination_score |-> score]

\* detect whose total_identifiers leaves the tables out
detect_TablesUncounted(identifiers, schema, dialect) ==
  LET phantom_tables == _detect_phantom_tables(identifiers.tables, schema)
      phantom_columns ==
        _detect_phantom_columns(identifiers.columns, identifiers.tables,
                                identifiers.aliases, schema)
      phantom_functions ==
        _detect_phantom_functions(identifiers.functions, dialect, schema)
      total_identifiers == Len(identifiers.columns) + Len(identifiers.functions)
      total_phantoms ==
        Len(phantom_tables) + Len(phantom_columns) + Len(phantom_functions)
  IN  HallucinationReport(phantom_tables, phantom_columns, phantom_functions,
                          Score(total_phantoms, total_identifiers))

\* HallucinationDetector.detect, after extract_identifiers returned
detect(identifiers, schema, dialect) ==
  LET phantom_tables == _detect_phantom_tables(identifiers.tables, schema)
      phantom_columns ==
        _detect_phantom_columns(identifiers.columns, identifiers.tables,
                                identifiers.aliases, schema)
      phantom_functions ==
        _detect_phantom_functions(identifiers.functions, dialect, schema)
      total_identifiers ==
        Len(identifiers.tables) + Len(identifiers.columns)
        + Len(identifiers.functions)
      total_phantoms ==
        Len(phantom_tables) + Len(phantom_columns) + Len(phantom_functions)
  IN  HallucinationReport(phantom_tables, phantom_columns, phantom_functions,
                          Score(total_phantoms, total_identifiers))

\* an error or warning string of validate: its wording and the identifier in it
Message(kind, id) == [kind |-> kind, id |-> id]

ValidationResult(is_valid, errors, warnings, hallucination_report) ==
  [is_valid |-> is_valid, errors |-> errors, warnings |-> warnings,
   hallucination_report |-> hallucination_report]

\* validate whose is_valid is taken before the errors are collected
validate_ValidBeforeErrors(rep) ==
  LET errors ==
        [i \in DOMAIN rep.phantom_tables |-> Message("Table", rep.phantom_tables[i])]
        \o [i \in DOMAIN rep.phantom_columns |->
              Message("Column", rep.phantom_columns[i])]
      warnings ==
        [i \in DOMAIN rep.phantom_functions |->
           Message("Function", rep.phantom_functions[i])]
  IN  ValidationResult(TRUE, errors, warnings, rep)

\* validate that collects the phantom functions as errors too
validate_FunctionsAsErrors(rep) ==
  LET errors ==
        [i \in DOMAIN rep.phantom_tables |-> Message("Table", rep.phantom_tables[i])]
        \o [i \in DOMAIN rep.phantom_columns |->
              Message("Column", rep.phantom_columns[i])]
        \o [i \in DOMAIN rep.phantom_functions |->
              Message("Function", rep.phantom_functions[i])]
      warnings == << >>
  IN  ValidationResult(Len(errors) = 0, errors, warnings, rep)

\* HallucinationDetector.validate, after detect returned
validate(rep) ==
  LET errors ==
        [i \in DOMAIN rep.phantom_tables |-> Message("Table", rep.phantom_tables[i])]
        \o [i \in DOMAIN rep.phantom_columns |->
              Message("Column", rep.phantom_columns[i])]
      warnings ==
        [i \in DOMAIN rep.phantom_functions |->
           Message("Function", rep.phantom_functions[i])]
  IN  ValidationResult(Len(errors) = 0, errors, warnings, rep)

----------------------------------------------------------------------------
(* Join Path Verifier, src/dev2/join_path_verifier.py *)

\* exp.Table with a table alias, "customers c": table.name and table.alias
AliasedTable(name, alias) == [TableNode(Empty, Empty, name) EXCEPT !.alias = alias]

\* an operand of an equality that is not a column: a literal
LiteralNode == Node("Literal", W("1"), Empty, Empty, Empty, Empty, Empty)

\* a joined relation that is not a table: a subquery
SubqueryNode == Node("Subquery", Empty, Empty, Empty, Empty, Empty, Empty)

\* exp.EQ: eq.left and eq.right
EQ(left, right) == [left |-> left, right |-> right]

\* exp.Join: join.this, whether join.args holds an ON clause, and the
\* equalities on_clause.find_all(exp.EQ) yields
JoinNode(this, has_on, on) ==
  [kind |-> "Join", this |-> this, has_on |-> has_on, on |-> on]

\* JoinPathVerifier._extract_join_columns: the (left_name, right_name) pairs
\* of the equalities whose two operands are columns
_extract_join_columns(on_clause) ==
  LET eqs == SelectSeq(on_clause,
                       LAMBDA eq : eq.left.kind = "Column" /\ eq.right.kind = "Column")
  IN  [i \in DOMAIN eqs |-> << ColumnName(eqs[i].left), ColumnName(eqs[i].right) >>]

\* one direction of _is_valid_join_path: a column of from_table named
\* from_column declares a foreign key into to_table
HasForeignKeyTo(from_table, from_column, to_table, schema) ==
  LET table_info == TablesGet(schema, from_table)
  IN  /\ ~table_info.is_none
      /\ \E i \in DOMAIN table_info.columns :
           LET col == table_info.columns[i]
           IN  /\ Lower(col.name) = Lower(from_column)
               /\ col.foreign_key # Empty
               /\ Len(col.foreign_key) >= 2
               /\ Lower(<< col.foreign_key[1] >>) = Lower(to_table)

\* _is_valid_join_path that checks the left-to-right direction only
_is_valid_join_path_OneWay(left_col, right_col, schema) ==
  IF Len(left_col) < 2 \/ Len(right_col) < 2
  THEN TRUE
  ELSE HasForeignKeyTo(<< left_col[1] >>, << left_col[2] >>, << right_col[1] >>, schema)

\* JoinPathVerifier._is_valid_join_path
_is_valid_join_path(left_col, right_col, schema) ==
  IF Len(left_col) < 2 \/ Len(right_col) < 2
  THEN TRUE
  ELSE LET left_table == << left_col[1] >>
           left_column == << left_col[2] >>
           right_table == << right_col[1] >>
           right_column == << right_col[2] >>
       IN  \/ HasForeignKeyTo(left_table, left_column, right_table, schema)
           \/ HasForeignKeyTo(right_table, right_column, left_table, schema)

\* the pairs of a join for which _is_valid_join_path returns False
InvalidPairs(join, schema) ==
  SelectSeq(_extract_join_columns(join.on),
            LAMBDA pair : ~_is_valid_join_path(pair[1], pair[2], schema))

\* _verify_single_join that reports every pair without a foreign-key path
_verify_single_join_Surfacing(join, schema) ==
  IF join.this.kind # "Table" \/ join.this.name = Empty \/ ~join.has_on
  THEN << >>
  ELSE [i \in DOMAIN InvalidPairs(join, schema) |->
          Message("Join", InvalidPairs(join, schema)[i][1])]

\* JoinPathVerifier._verify_single_join: the errors of one join; a pair
\* without a foreign-key path adds nothing to them
_verify_single_join(join, schema) ==
  LET join_table == IF join.this.kind = "Table" THEN join.this.name ELSE Empty
  IN  IF join_table = Empty THEN << >>
      ELSE IF ~join.has_on THEN << >>
      ELSE LET join_columns == _extract_join_columns(join.on)
           IN  << >>   \* "if not valid: pass" for every pair of join_columns

\* the errors of the joins visited in the order q
RECURSIVE JoinErrors(_, _)
JoinErrors(q, schema) ==
  IF q = << >> THEN << >>
  ELSE _verify_single_join(Head(q), schema) \o JoinErrors(Tail(q), schema)

\* JoinPathVerifier.verify, after parser.parse returned: the ValidationResult
\* for each order in which find_all may yield the joins
verify(tree, schema) ==
  { LET errors == JoinErrors(joins, schema)
        warnings == << >>
    IN  ValidationResult(Len(errors) = 0, errors, warnings, None) :
    joins \in Orders(NodesOf(tree, "Join")) }

\* AppendNew without the "not in valid_tables" test
AppendNew_Always(valid_tables, name) == Append(valid_tables, name)

\* valid_tables.append(name) under "if name not in valid_tables"
AppendNew(valid_tables, name) ==
  IF name \in Range(valid_tables) THEN valid_tables ELSE Append(valid_tables, name)

\* first loop of get_valid_join_paths: the tables the foreign keys of the
\* columns name
RECURSIVE OutgoingFKs(_, _)
OutgoingFKs(columns, valid_tables) ==
  IF columns = << >> THEN valid_tables
  ELSE LET col == Head(columns)
           fk_table == << col.foreign_key[1] >>   \* foreign_key.split(".")[0]
       IN  OutgoingFKs(Tail(columns),
                       IF col.foreign_key # Empty
                       THEN AppendNew(valid_tables, fk_table)
                       ELSE valid_tables)

\* fk.startswith(f"{table}.")
StartsWithTable(fk, table) ==
  Len(fk) > Len(table) /\ SubSeq(fk, 1, Len(table)) = table

\* get_valid_join_paths without its second loop
IncomingFKs_Skipped(names, table, schema, valid_tables) == valid_tables

\* second loop of get_valid_join_paths, over schema.tables.items() in the
\* order names: the other tables with a foreign key into table
RECURSIVE IncomingFKs(_, _, _, _)
IncomingFKs(names, table, schema, valid_tables) ==
  IF names = << >> THEN valid_tables
  ELSE LET other_table_name == Head(names)
           other_table_info == schema.tables[other_table_name]
           refers == \E i \in DOMAIN other_table_info.columns :
                       LET col == other_table_info.columns[i]
                       IN  col.foreign_key # Empty
                           /\ StartsWithTable(col.foreign_key, table)
       IN  IncomingFKs(Tail(names), table, schema,
                       IF other_table_name # table /\ refers
                       THEN AppendNew(valid_tables, other_table_name)
                       ELSE valid_tables)

\* JoinPathVerifier.get_valid_join_paths: the lists it may return, one for
\* each order in which the dict schema.tables may enumerate its items
get_valid_join_paths(table, schema) ==
  LET table_info == TablesGet(schema, table)
  IN  IF table_info.is_none THEN { << >> }
      ELSE { IncomingFKs(names, table, schema,
                         OutgoingFKs(table_info.columns, << >>)) :
             names \in Orders(DOMAIN schema.tables) }

----------------------------------------------------------------------------
(* Schema Validator, src/dev2/schema_validator.py *)

\* SchemaValidator._column_exists
_column_exists(col, tables, aliases, schema) ==
  LET col_name == Lower(LastSegment(col))
      qualified == Len(col) > 1
      table_qualifier == Lower(SubSeq(col, 1, 1))
      actual_table ==
        IF table_qualifier \in DOMAIN aliases THEN aliases[table_qualifier]
        ELSE table_qualifier
      table_info == TablesGet(schema, actual_table)
      NamesOf(info) == { Lower(info.columns[i].name) : i \in DOMAIN info.columns }
      Referenced(table) ==
        OrElse(TablesGet(schema, LastSegment(table)), TablesGet(schema, table))
  IN  IF qualified
      THEN ~table_info.is_none /\ col_name \in NamesOf(table_info)
      ELSE \/ \E i \in DOMAIN tables :
                ~Referenced(tables[i]).is_none /\ col_name \in NamesOf(Referenced(tables[i]))
           \/ \E k \in DOMAIN schema.tables : col_name \in NamesOf(schema.tables[k])

\* SchemaValidator.validate
SchemaValidator_validate(identifiers, schema) ==
  LET Missing(table) ==
        ~has_table(schema, LastSegment(table)) /\ ~has_table(schema, table)
      Absent(col) ==
        ~_column_exists(col, identifiers.tables, identifiers.aliases, schema)
      missing == SelectSeq(identifiers.tables, Missing)
      absent == SelectSeq(identifiers.columns, Absent)
      errors ==
        [i \in DOMAIN missing |-> Message("Table does not exist", missing[i])]
        \o [i \in DOMAIN absent |-> Message("Column does not exist", absent[i])]
      warnings == << >>
  IN  ValidationResult(Len(errors) = 0, errors, warnings, None)

----------------------------------------------------------------------------
(* Further inputs: the customers schema with the queries written against    *)
(* it, and the schemas with foreign keys with the join queries.             *)

\* customers(id, name, email)
CustomersSchema ==
  SchemaOf(W("customers") :>
             TableInfo(<< Column(W("id"), Empty), Column(W("name"), Empty),
                          Column(W("email"), Empty) >>), {})

\* the nodes of SELECT name, age FROM customers and SELECT * FROM ghost_table
\* (a bare * in the select list is an exp.Star, no column and no function)
CustomersNodes ==
  { TableNode(Empty, Empty, W("customers")), TableNode(Empty, Empty, W("ghost_table")),
    ColumnNode(Empty, W("name")), ColumnNode(Empty, W("age")) }

CustomersTrees == SubsetsUpTo(CustomersNodes, MaxNodes)

\* customers(id, region_id -> regions.id),
\* orders(id, Customer_id -> customers.id, billed_to -> customers.id), regions(id)
ShopSchema ==
  SchemaOf(W("customers") :>
             TableInfo(<< Column(W("id"), Empty),
                          Column(W("region_id"), W("regions") \o W("id")) >>)
           @@ W("orders") :>
             TableInfo(<< Column(W("id"), Empty),
                          Column(M("customer_id"), W("customers") \o W("id")),
                          Column(W("billed_to"), W("customers") \o W("id")) >>)
           @@ W("regions") :> TableInfo(<< Column(W("id"), Empty) >>), {})

\* employees(id, manager_id -> employees.id, dept_id -> depts.id),
\* depts(id, head_id -> employees.id)
StaffSchema ==
  SchemaOf(W("employees") :>
             TableInfo(<< Column(W("id"), Empty),
                          Column(W("manager_id"), W("employees") \o W("id")),
                          Column(W("dept_id"), W("depts") \o W("id")) >>)
           @@ W("depts") :>
             TableInfo(<< Column(W("id"), Empty),
                          Column(W("head_id"), W("employees") \o W("id")) >>), {})

JoinSchemas == { ShopSchema, StaffSchema }

\* the table arguments get_valid_join_paths may be given
JoinTableArgs ==
  { W("customers"), W("orders"), W("regions"), W("employees"), W("depts"),
    M("orders"), W("ghost_table") }

\* the equalities an ON clause may hold
JoinEqs ==
  { EQ(ColumnNode(W("c"), W("id")), ColumnNode(W("o"), W("customer_id"))),
    EQ(ColumnNode(W("o"), W("customer_id")), ColumnNode(W("c"), W("id"))),
    EQ(ColumnNode(W("customers"), W("id")), ColumnNode(W("orders"), W("customer_id"))),
    EQ(ColumnNode(W("orders"), U("customer_id")), ColumnNode(W("customers"), W("id"))),
    EQ(ColumnNode(M("orders"), W("customer_id")), ColumnNode(W("customers"), W("id"))),
    EQ(ColumnNode(W("orders"), W("id")), ColumnNode(W("customers"), W("id"))),
    EQ(ColumnNode(Empty, W("id")), ColumnNode(Empty, W("customer_id"))),
    EQ(ColumnNode(W("employees"), W("dept_id")), ColumnNode(W("depts"), W("id"))),
    EQ(ColumnNode(W("orders"), W("id")), LiteralNode) }

\* the tables a FROM clause may name: customers c, customers
FromTables ==
  { AliasedTable(W("customers"), W("c")), TableNode(Empty, Empty, W("customers")) }

\* the joins a query may hold: JOIN orders o ON eq, JOIN orders ON eq,
\* JOIN orders (no ON clause), JOIN (subquery) ON eq
JoinNodes ==
  { JoinNode(this, TRUE, << eq >>) :
      this \in { AliasedTable(W("orders"), W("o")), TableNode(Empty, Empty, W("orders")) },
      eq \in JoinEqs }
  \cup { JoinNode(TableNode(Empty, Empty, W("orders")), FALSE, << >>) }
  \cup { JoinNode(SubqueryNode, TRUE, << eq >>) : eq \in JoinEqs }

\* the operands of the equalities of a join
OnOperands(join) == UNION { { join.on[i].left, join.on[i].right } : i \in DOMAIN join.on }

\* the tree of FROM from_table followed by joins: the table, the joins, the
\* joined tables and the columns of the ON clauses
JoinTreeOf(from_table, joins) ==
  { from_table } \cup joins
  \cup { j.this : j \in { k \in joins : k.this.kind = "Table" } }
  \cup { n \in UNION { OnOperands(j) : j \in joins } : n.kind = "Column" }

\* The trees a parse may produce for a join query: at most MaxJoins joins.
JoinTrees ==
  { JoinTreeOf(f, joins) : f \in FromTables, joins \in SubsetsUpTo(JoinNodes, MaxJoins) }

\* The trees a parse may produce for the SQL of a call of operation o with
\* schema s.
TreesOf(o, s) ==
  IF o = "verify" THEN JoinTrees
  ELSE IF s = CustomersSchema THEN CustomersTrees
  ELSE Trees

----------------------------------------------------------------------------
(* One caller driving the engine, a call at a time.                          *)
(*   pc      where the call in progress stands                               *)
(*   op      the public operation called                                     *)
(*   schema, dialect   its arguments (the SQL text is known by the outcomes  *)
(*           of the attempts to parse it)                                    *)
(*   fb      index of the next entry of fallback_dialects to try             *)
(*   ast     the tree parse obtained                                         *)
(*   ids     the IdentifierSet extracted                                     *)
(*   report  the HallucinationReport of detect                               *)
(*   result  the value returned: the ValidationResult of validate and of     *)
(*           verify, the list of get_valid_join_paths                        *)
(*   exc     the exception that left the call, "" if none                    *)
(*   arg     the table argument of get_valid_join_paths                      *)

VARIABLES pc, op, schema, dialect, fb, ast, ids, report, result, exc, arg

(* The parser called directly, with the SQL text as part of the state.       *)
(*   parser  the SQLParser instances there are, each with its attributes     *)
(*   self    the instance called                                             *)
(*   sql     the SQL text, known by what sqlglot.parse_one makes of it in    *)
(*           each mode                                                       *)
(*   tried   the modes in which the call has called sqlglot.parse_one        *)
(*   prev    an IdentifierSet a caller has kept, with the call it came from  *)

VARIABLES parser, self, sql, tried, prev

(* Callers sharing one detector, one verifier, one parser and the schemas.   *)
(*   objects    the set objects by name: the module-level function tables    *)
(*              and the sets the calls in progress have created              *)
(*   models     the Schema Models the callers share, by name                 *)
(*   calls      the call in progress of each caller: its position, its       *)
(*              arguments and its local variables                            *)
(*   allocated  the number of result objects constructed so far              *)

VARIABLES objects, models, calls, allocated

other_vars == << parser, self, sql, tried, prev, objects, models, calls, allocated >>

vars == << pc, op, schema, dialect, fb, ast, ids, report, result, exc, arg,
           other_vars >>

Ops == { "extract_identifiers", "detect", "validate" }

NoTree == {}
NoIds == IdentifierSet(<< >>, << >>, << >>, [k \in {} |-> Empty])
NoReport == HallucinationReport(<< >>, << >>, << >>, Score(0, 0))
NoResult == ValidationResult(TRUE, << >>, << >>, NoReport)
NoSchema == SchemaOf(NoTables, {})
NoSql == [m \in {} |-> None]
NoPrev == [kept |-> FALSE]

\* SQLParser(default_dialect): the instance __init__ leaves
SQLParser(default) == [default_dialect |-> _normalize_dialect(default)]

\* the detector and the verifier construct SQLParser(); they are given no
\* text apart from the outcomes of parsing it, and keep nothing
\* the names of the module-level function tables of sql_parser.py
StaticNames == { "COMMON_FUNCTIONS", "BIGQUERY_FUNCTIONS", "SNOWFLAKE_FUNCTIONS" }

\* the module-level function tables as the import of sql_parser.py leaves them
StaticObjects ==
  [n \in StaticNames |->
     IF n = "COMMON_FUNCTIONS" THEN COMMON_FUNCTIONS
     ELSE IF n = "BIGQUERY_FUNCTIONS" THEN BIGQUERY_FUNCTIONS
     ELSE SNOWFLAKE_FUNCTIONS]

\* one caller: nothing is shared, no call of another caller is in progress
AloneInit ==
  /\ objects = StaticObjects
  /\ models = [n \in {} |-> NoSchema]
  /\ calls = << >>
  /\ allocated = 0

OtherInit ==
  /\ parser = (1 :> SQLParser(DialectStr("", "l", FALSE)))
  /\ self = 1
  /\ sql = NoSql
  /\ tried = << >>
  /\ prev = NoPrev
  /\ AloneInit

Init ==
  /\ pc = "idle"
  /\ op = ""
  /\ schema = NoSchema
  /\ dialect = DialectStr("", "l", FALSE)
  /\ fb = 1
  /\ ast = NoTree
  /\ ids = NoIds
  /\ report = NoReport
  /\ result = NoResult
  /\ exc = ""
  /\ arg = Empty
  /\ OtherInit

\* normalized_dialect of SQLParser.parse
NormalizedDialect(d) ==
  IF _normalize_dialect(d) # None THEN _normalize_dialect(d) ELSE default_dialect

\* A caller invokes extract_identifiers(sql, dialect), detect(sql, schema,
\* dialect) or validate(sql, schema, dialect); each starts with parser.parse.
\* validate begins by calling detect with its own arguments, so every schema
\* is tried through validate; detect is called directly with CustomersSchema.
Call ==
  /\ pc = "idle"
  /\ \E o \in Ops, s \in Schemas \cup { CustomersSchema }, d \in Dialects :
       /\ o = "detect" => s = CustomersSchema
       /\ op' = o
       /\ schema' = IF o = "extract_identifiers" THEN NoSchema ELSE s
       /\ dialect' = d
  /\ pc' = "parse"
  /\ UNCHANGED << other_vars, arg, fb, ast, ids, report, result, exc >>

\* parse: sqlglot.parse_one under the normalized dialect returns a tree
ParsePrimaryOk ==
  /\ pc = "parse"
  /\ \E tree \in TreesOf(op, schema) : ast' = tree
  /\ pc' = "extract"
  /\ UNCHANGED << other_vars, arg, op, schema, dialect, fb, ids, report, result, exc >>

\* parse: the primary attempt raises sqlglot.errors.ParseError, which parse
\* catches to call _parse_with_fallback
ParsePrimaryParseError ==
  /\ pc = "parse"
  /\ pc' = "fallback"
  /\ fb' = 1
  /\ UNCHANGED << other_vars, arg, op, schema, dialect, ast, ids, report, result, exc >>

\* parse: the primary attempt raises anything else (sqlglot.errors.TokenError
\* of the tokenizer, ValueError for a dialect sqlglot does not know): no
\* handler, the exception leaves parse
ParsePrimaryOtherError ==
  /\ pc = "parse"
  /\ pc' = "raised"
  /\ exc' = "Error"
  /\ UNCHANGED << other_vars, arg, op, schema, dialect, fb, ast, ids, report, result >>

\* the loop of _parse_with_fallback moves on; after the last entry comes the
\* error-tolerant attempt
FallbackAdvance ==
  /\ fb' = fb + 1
  /\ pc' = IF fb + 1 > Len(fallback_dialects) THEN "tolerant" ELSE "fallback"

\* _parse_with_fallback: the entry is the dialect already attempted
FallbackSkip ==
  /\ pc = "fallback"
  /\ fallback_dialects[fb] = NormalizedDialect(dialect)
  /\ FallbackAdvance
  /\ UNCHANGED << other_vars, arg, op, schema, dialect, ast, ids, report, result, exc >>

\* _parse_with_fallback: the attempt under the entry returns a tree
FallbackOk ==
  /\ pc = "fallback"
  /\ fallback_dialects[fb] # NormalizedDialect(dialect)
  /\ \E tree \in TreesOf(op, schema) : ast' = tree
  /\ pc' = "extract"
  /\ fb' = 1
  /\ UNCHANGED << other_vars, arg, op, schema, dialect, ids, report, result, exc >>

\* _parse_with_fallback: the attempt under the entry raises; the bare except
\* swallows whatever it is
FallbackFail ==
  /\ pc = "fallback"
  /\ fallback_dialects[fb] # NormalizedDialect(dialect)
  /\ FallbackAdvance
  /\ UNCHANGED << other_vars, arg, op, schema, dialect, ast, ids, report, result, exc >>

\* _parse_with_fallback: parse_one with ErrorLevel.IGNORE returns a tree
TolerantOk ==
  /\ pc = "tolerant"
  /\ \E tree \in TreesOf(op, schema) : ast' = tree
  /\ pc' = "extract"
  /\ fb' = 1
  /\ UNCHANGED << other_vars, arg, op, schema, dialect, ids, report, result, exc >>

\* _parse_with_fallback: parse_one with ErrorLevel.IGNORE raises (the
\* tokenizer's TokenError, or ParseError "No expression was parsed" when
\* there is no tree); the call is outside every try
TolerantRaise ==
  /\ pc = "tolerant"
  /\ \E e \in { "ParseError", "Error" } : exc' = e
  /\ pc' = "raised"
  /\ fb' = 1
  /\ UNCHANGED << other_vars, arg, op, schema, dialect, ast, ids, report, result >>

\* parse and extract_identifiers: _extract_all_identifiers on the tree
Extract ==
  /\ pc = "extract"
  /\ ids' \in _extract_all_identifiers(ast)
  /\ pc' = IF op = "extract_identifiers" THEN "done"
           ELSE IF op = "verify" THEN "verify"
           ELSE "detect"
  /\ UNCHANGED << other_vars, arg, op, schema, dialect, fb, ast, report, result, exc >>

\* detect: the three detections and the score
Detect ==
  /\ pc = "detect"
  /\ report' = detect(ids, schema, dialect)
  /\ pc' = IF op = "validate" THEN "validate" ELSE "done"
  /\ UNCHANGED << other_vars, arg, op, schema, dialect, fb, ast, ids, result, exc >>

\* validate: the report turned into errors and warnings
Validate ==
  /\ pc = "validate"
  /\ result' = validate(report)
  /\ pc' = "done"
  /\ UNCHANGED << other_vars, arg, op, schema, dialect, fb, ast, ids, report, exc >>

\* A caller invokes verify(sql, schema, dialect), which starts with
\* parser.parse.
CallVerify ==
  /\ pc = "idle"
  /\ op' = "verify"
  /\ schema' \in JoinSchemas
  /\ dialect' \in Dialects
  /\ pc' = "parse"
  /\ UNCHANGED << other_vars, arg, fb, ast, ids, report, result, exc >>

\* verify: every join of the tree verified, the errors turned into the result
Verify ==
  /\ pc = "verify"
  /\ result' \in verify(ast, schema)
  /\ pc' = "done"
  /\ UNCHANGED << other_vars, arg, op, schema, dialect, fb, ast, ids, report, exc >>

\* A caller invokes get_valid_join_paths(table, schema).
CallGetValidJoinPaths ==
  /\ pc = "idle"
  /\ op' = "get_valid_join_paths"
  /\ schema' \in JoinSchemas
  /\ arg' \in JoinTableArgs
  /\ pc' = "paths"
  /\ UNCHANGED << other_vars, dialect, fb, ast, ids, report, result, exc >>

\* get_valid_join_paths: the outgoing, then the incoming foreign keys
GetValidJoinPaths ==
  /\ pc = "paths"
  /\ result' \in get_valid_join_paths(arg, schema)
  /\ pc' = "done"
  /\ UNCHANGED << other_vars, arg, op, schema, dialect, fb, ast, ids, report, exc >>

\* the call is over, by a return or by an exception; the caller may call again
Return ==
  /\ pc \in { "done", "raised" }
  /\ pc' = "idle"
  /\ op' = ""
  /\ schema' = NoSchema
  /\ dialect' = DialectStr("", "l", FALSE)
  /\ fb' = 1
  /\ ast' = NoTree
  /\ ids' = NoIds
  /\ report' = NoReport
  /\ result' = NoResult
  /\ exc' = ""
  /\ arg' = Empty
  /\ UNCHANGED other_vars

Next ==
  \/ Call
  \/ ParsePrimaryOk
  \/ ParsePrimaryParseError
  \/ ParsePrimaryOtherError
  \/ FallbackSkip
  \/ FallbackOk
  \/ FallbackFail
  \/ TolerantOk
  \/ TolerantRaise
  \/ Extract
  \/ Detect
  \/ Validate
  \/ Return

Spec == Init /\ [][Next]_vars

----------------------------------------------------------------------------
(* One caller driving the Join Path Verifier, a call at a time.              *)

JoinNext ==
  \/ CallVerify
  \/ ParsePrimaryOk
  \/ ParsePrimaryParseError
  \/ ParsePrimaryOtherError
  \/ FallbackSkip
  \/ FallbackOk
  \/ FallbackFail
  \/ TolerantOk
  \/ TolerantRaise
  \/ Extract
  \/ Verify
  \/ CallGetValidJoinPaths
  \/ GetValidJoinPaths
  \/ Return

JoinSpec == Init /\ [][JoinNext]_vars

----------------------------------------------------------------------------
(* Dialect normalization on its own: _normalize_dialect applied to a dialect *)
(* string, as SQLParser.__init__ and every operation of the parser do.       *)

\* the words of the dialect strings tried: the keys of DIALECT_MAP and names
\* it does not hold
DialectWords ==
  { "postgres", "postgresql", "sqlite", "duckdb", "bigquery", "snowflake",
    "clickhouse", "mysql", "oracle", "tsql", "auto", "postgre" }

\* the dialect strings tried: "", blanks only, and every word in lower,
\* upper and mixed case, with and without surrounding blanks
DialectInputs ==
  { DialectStr("", "l", FALSE), DialectStr("", "l", TRUE) }
  \cup { DialectStr(w, c, pad) : w \in DialectWords, c \in { "l", "u", "m" },
                                 pad \in BOOLEAN }

DialectInit ==
  /\ pc = "idle"
  /\ op = "_normalize_dialect"
  /\ schema = NoSchema
  /\ dialect \in DialectInputs
  /\ fb = 1
  /\ ast = NoTree
  /\ ids = NoIds
  /\ report = NoReport
  /\ result = None
  /\ exc = ""
  /\ arg = Empty
  /\ OtherInit

\* _normalize_dialect(dialect) returns
Normalize ==
  /\ pc = "idle"
  /\ op = "_normalize_dialect"
  /\ result' = _normalize_dialect(dialect)
  /\ pc' = "done"
  /\ UNCHANGED << other_vars, arg, op, schema, dialect, fb, ast, ids, report, exc >>

DialectNext == Normalize

DialectSpec == DialectInit /\ [][DialectNext]_vars

----------------------------------------------------------------------------
(* SQLParser called directly: parse, extract_identifiers, validate_syntax.   *)
(* The SQL text is part of the state here, so that two calls can be given    *)
(* the same text.  A text is known by what sqlglot.parse_one makes of it in  *)
(* each mode: read=<dialect>, no dialect (None), and error_level=IGNORE.     *)

\* error_level=sqlglot.ErrorLevel.IGNORE, without a dialect
IGNORE == "IGNORE"

\* one call of sqlglot.parse_one returns a tree or raises
Returned(tree) == [raises |-> "", tree |-> tree]
Raised(e) == [raises |-> e, tree |-> NoTree]

\* SELECT "name" FROM customers, orders read with "name" a quoted column ...
QuotedAsColumn ==
  { TableNode(Empty, Empty, W("customers")), TableNode(Empty, Empty, W("orders")),
    ColumnNode(Empty, W("name")) }

\* ... and read with "name" a string literal
QuotedAsString ==
  { TableNode(Empty, Empty, W("customers")), TableNode(Empty, Empty, W("orders")) }

\* what one mode may make of a text: a tree, sqlglot.errors.ParseError, or
\* another exception (sqlglot.errors.TokenError of the tokenizer)
Outcomes ==
  { Returned(QuotedAsColumn), Returned(QuotedAsString),
    Raised("ParseError"), Raised("Error") }

\* the dialects a call of this specification reads a text in
DialectModes == { "postgres", "bigquery", "snowflake", None }

\* The texts: every outcome in every dialect mode, but that BigQuery never
\* reads a double-quoted text as a column.  error_level=IGNORE reads the text
\* without a dialect as the mode None does: the same tree when None gives
\* one, the same tokenizer error, and instead of the errors of the parser a
\* salvaged tree or ParseError ("No expression was parsed").
SqlTexts ==
  { d @@ (IGNORE :> i) :
      d \in { e \in [DialectModes -> Outcomes] :
                e["bigquery"] # Returned(QuotedAsColumn) },
      i \in Outcomes } \ 
  { t \in [DialectModes \cup { IGNORE } -> Outcomes] :
      \/ t[None].raises = "" /\ t[IGNORE] # t[None]
      \/ t[None].raises = "Error" /\ t[IGNORE] # t[None]
      \/ t[None].raises = "ParseError" /\ t[IGNORE].raises = "Error" }

\* sqlglot.parse_one(sql, read=mode), sqlglot.parse_one(sql) for None and
\* sqlglot.parse_one(sql, error_level=IGNORE); a dialect sqlglot does not
\* know raises ValueError
parse_one(text, mode) ==
  IF mode \in DOMAIN text THEN text[mode] ELSE Raised("Error")

\* the loop of SQLParser._parse_with_fallback from entry i on, then the
\* error-tolerant call: the outcome and the modes tried
RECURSIVE FallbackFrom(_, _, _)
FallbackFrom(text, d, i) ==
  IF i > Len(fallback_dialects)
  THEN [out |-> parse_one(text, IGNORE), tried |-> << IGNORE >>]
  ELSE LET fallback == fallback_dialects[i]
       IN  IF fallback = d
           THEN FallbackFrom(text, d, i + 1)                     \* continue
           ELSE LET attempt == parse_one(text, fallback)
                    later == FallbackFrom(text, d, i + 1)
                IN  IF attempt.raises = ""
                    THEN [out |-> attempt, tried |-> << fallback >>]
                    ELSE [out |-> later.out,                       \* except: continue
                          tried |-> << fallback >> \o later.tried]

\* SQLParser._parse_with_fallback
_parse_with_fallback(text, d) == FallbackFrom(text, d, 1)

\* normalized_dialect of SQLParser.parse on the instance p
normalized_dialect(p, d) ==
  IF _normalize_dialect(d) # None THEN _normalize_dialect(d) ELSE p.default_dialect

\* the try block of SQLParser.parse: the tree, or the exception that leaves
\* parse, and the modes tried
ParseAst(p, text, d) ==
  LET primary == parse_one(text, normalized_dialect(p, d))
      recovered == _parse_with_fallback(text, normalized_dialect(p, d))
  IN  IF primary.raises = "ParseError"
      THEN [out |-> recovered.out,
            tried |-> << normalized_dialect(p, d) >> \o recovered.tried]
      ELSE [out |-> primary, tried |-> << normalized_dialect(p, d) >>]

ParsedSQL(tree, d, tables, columns, functions, aliases, raw_sql) ==
  [ast |-> tree, dialect |-> d, tables |-> tables, columns |-> columns,
   functions |-> functions, aliases |-> aliases, raw_sql |-> raw_sql]

NoParsedSQL == ParsedSQL(NoTree, "", << >>, << >>, << >>, NoIds.aliases, NoSql)

\* what a call leaves: the value returned or the exception raised, the modes
\* tried, and the instance as the call leaves it
Left(raises, value, attempts, p) ==
  [raises |-> raises, value |-> value, tried |-> attempts, self |-> p]

\* parse that names in ParsedSQL.dialect the mode that produced the tree
parse_DialectOfTree(p, text, d) ==
  LET a == ParseAst(p, text, d)
      by == a.tried[Len(a.tried)]
  IN  IF a.out.raises # ""
      THEN { Left(a.out.raises, NoParsedSQL, a.tried, p) }
      ELSE { Left("", ParsedSQL(a.out.tree, IF by = None THEN "auto" ELSE by,
                                identifiers.tables, identifiers.columns,
                                identifiers.functions, identifiers.aliases, text),
                  a.tried, p) :
               identifiers \in _extract_all_identifiers(a.out.tree) }

\* parse that keeps the dialect of the attempt that gave the tree as the
\* default of the instance
parse_Sticky(p, text, d) ==
  LET a == ParseAst(p, text, d)
      by == a.tried[Len(a.tried)]
      n == normalized_dialect(p, d)
  IN  IF a.out.raises # ""
      THEN { Left(a.out.raises, NoParsedSQL, a.tried, p) }
      ELSE { Left("", ParsedSQL(a.out.tree, IF n # None THEN n ELSE "auto",
                                identifiers.tables, identifiers.columns,
                                identifiers.functions, identifiers.aliases, text),
                  a.tried,
                  [p EXCEPT !.default_dialect = IF by = IGNORE THEN None ELSE by]) :
               identifiers \in _extract_all_identifiers(a.out.tree) }

\* SQLParser.parse on the instance p: what the call may leave
parse(p, text, d) ==
  LET a == ParseAst(p, text, d)
      n == normalized_dialect(p, d)
  IN  IF a.out.raises # ""
      THEN { Left(a.out.raises, NoParsedSQL, a.tried, p) }
      ELSE { Left("", ParsedSQL(a.out.tree, IF n # None THEN n ELSE "auto",
                                identifiers.tables, identifiers.columns,
                                identifiers.functions, identifiers.aliases, text),
                  a.tried, p) :
               identifiers \in _extract_all_identifiers(a.out.tree) }

\* SQLParser.extract_identifiers
extract_identifiers(p, text, d) ==
  { IF parsed.raises # ""
    THEN Left(parsed.raises, NoIds, parsed.tried, parsed.self)
    ELSE Left("", IdentifierSet(parsed.value.tables, parsed.value.columns,
                                parsed.value.functions, parsed.value.aliases),
              parsed.tried, parsed.self) :
      parsed \in parse(p, text, d) }

\* str(e), the message of an exception: a text that is not empty
Str(e) == e \o " raised by sqlglot"

\* validate_syntax that lets the exception of parse through
validate_syntax_NoHandler(p, text, d) ==
  { IF parsed.raises # ""
    THEN Left(parsed.raises, << FALSE, "" >>, parsed.tried, parsed.self)
    ELSE Left("", << TRUE, None >>, parsed.tried, parsed.self) :
      parsed \in parse(p, text, d) }

\* SQLParser.validate_syntax
validate_syntax(p, text, d) ==
  { IF parsed.raises = "ParseError"
    THEN Left("", << FALSE, Str(parsed.raises) >>, parsed.tried, parsed.self)
    ELSE IF parsed.raises # ""
    THEN Left("", << FALSE, "Unexpected error: " \o Str(parsed.raises) >>,
              parsed.tried, parsed.self)
    ELSE Left("", << TRUE, None >>, parsed.tried, parsed.self) :
      parsed \in parse(p, text, d) }

\* the instances: SQLParser(), SQLParser("bigquery") and SQLParser(" ")
Parsers ==
  (1 :> SQLParser(DialectStr("", "l", FALSE)))
  @@ (2 :> SQLParser(DialectStr("bigquery", "l", FALSE)))
  @@ (3 :> SQLParser(DialectStr("", "l", TRUE)))

\* the dialect arguments of the calls: "", "postgresql", " Snowflake "
ParserDialects ==
  { DialectStr("", "l", FALSE), DialectStr("postgresql", "l", FALSE),
    DialectStr("snowflake", "m", TRUE) }

ParserOps == { "parse", "extract_identifiers", "validate_syntax" }

ParserInit ==
  /\ pc = "idle"
  /\ op = ""
  /\ schema = NoSchema
  /\ dialect = DialectStr("", "l", FALSE)
  /\ fb = 1
  /\ ast = NoTree
  /\ ids = NoIds
  /\ report = NoReport
  /\ result = NoResult
  /\ exc = ""
  /\ arg = Empty
  /\ parser = Parsers
  /\ self = 1
  /\ sql \in SqlTexts
  /\ tried = << >>
  /\ prev = NoPrev
  /\ AloneInit

\* A caller invokes parse, extract_identifiers or validate_syntax on one of
\* the instances, with the text and a dialect.
CallParser ==
  /\ pc = "idle"
  /\ op' \in ParserOps
  /\ self' \in DOMAIN parser
  /\ dialect' \in ParserDialects
  /\ pc' = "called"
  /\ UNCHANGED << arg, schema, fb, ast, ids, report, result, exc, parser, sql,
                  tried, prev, objects, models, calls, allocated >>

\* the call ends as left says
Leave(left) ==
  /\ result' = left.value
  /\ exc' = left.raises
  /\ tried' = left.tried
  /\ parser' = [parser EXCEPT ![self] = left.self]
  /\ pc' = IF left.raises = "" THEN "done" ELSE "raised"
  /\ UNCHANGED << arg, op, schema, dialect, fb, ast, ids, report, self, sql, prev,
                  objects, models, calls, allocated >>

Parse ==
  /\ pc = "called" /\ op = "parse"
  /\ \E left \in parse(parser[self], sql, dialect) : Leave(left)

ExtractIdentifiers ==
  /\ pc = "called" /\ op = "extract_identifiers"
  /\ \E left \in extract_identifiers(parser[self], sql, dialect) : Leave(left)

ValidateSyntax ==
  /\ pc = "called" /\ op = "validate_syntax"
  /\ \E left \in validate_syntax(parser[self], sql, dialect) : Leave(left)

\* what the caller keeps of the call that ended
Kept == [kept |-> TRUE, self |-> self, dialect |-> dialect, ids |-> result]

\* the call is over; the caller may keep the IdentifierSet it was given, and
\* may call again with the same text
ParserReturn ==
  /\ pc \in { "done", "raised" }
  /\ \/ prev' = prev
     \/ op = "extract_identifiers" /\ pc = "done" /\ prev' = Kept
  /\ pc' = "idle"
  /\ op' = ""
  /\ dialect' = DialectStr("", "l", FALSE)
  /\ result' = NoResult
  /\ exc' = ""
  /\ tried' = << >>
  /\ self' = 1
  /\ UNCHANGED << arg, schema, fb, ast, ids, report, parser, sql, objects, models,
                  calls, allocated >>

ParserNext ==
  \/ CallParser
  \/ Parse
  \/ ExtractIdentifiers
  \/ ValidateSyntax
  \/ ParserReturn

ParserSpec == ParserInit /\ [][ParserNext]_vars

----------------------------------------------------------------------------
(* Callers sharing the engine.  Several callers hold the same detector, the  *)
(* same verifier (each with its parser) and the same Schema Models, and call *)
(* at the same time; the statements of their calls interleave.  The sets are *)
(* objects: a name of objects refers to one, set.copy() creates one and      *)
(* set.update() changes the one it is called on.                             *)

Callers == { 1, 2 }

\* Bound: the result objects constructed in one behaviour.
MaxObjects == 4

\* the object `functions = COMMON_FUNCTIONS.copy()` creates in the call of
\* caller t, all callers sharing one object
LocalSet_Shared(t) == "functions of 1"

\* the object `functions = COMMON_FUNCTIONS.copy()` creates in the call of
\* caller t: a local variable of that call refers to it, nothing else does
LocalSet(t) == IF t = 1 THEN "functions of 1" ELSE "functions of 2"

\* set.copy(): the object new is created with the elements of src
SetCopy(h, src, new) == [h EXCEPT ![new] = h[src]]

\* ref.update(elems)
SetUpdate(h, ref, elems) == [h EXCEPT ![ref] = @ \cup elems]

\* get_dialect_functions with functions = COMMON_FUNCTIONS, without copy()
GetDialectFunctions_NoCopy(h, d, new) ==
  LET normalized == _normalize_dialect(d)
      functions == "COMMON_FUNCTIONS"
  IN  [functions |-> functions,
       objects |->
         IF normalized = "bigquery"
         THEN SetUpdate(h, functions, h["BIGQUERY_FUNCTIONS"])
         ELSE IF normalized = "snowflake"
         THEN SetUpdate(h, functions, h["SNOWFLAKE_FUNCTIONS"])
         ELSE h]

\* SQLParser.get_dialect_functions on the objects h: the object returned and
\* the objects after the call; new names the object copy() creates
GetDialectFunctions(h, d, new) ==
  LET normalized == _normalize_dialect(d)
      functions == new
      copied == SetCopy(h, "COMMON_FUNCTIONS", new)
  IN  [functions |-> functions,
       objects |->
         IF normalized = "bigquery"
         THEN SetUpdate(copied, functions, copied["BIGQUERY_FUNCTIONS"])
         ELSE IF normalized = "snowflake"
         THEN SetUpdate(copied, functions, copied["SNOWFLAKE_FUNCTIONS"])
         ELSE copied]

\* the end of detect: the totals, the score and the report
ReportOf(identifiers, phantom_tables, phantom_columns, phantom_functions) ==
  LET total_identifiers ==
        Len(identifiers.tables) + Len(identifiers.columns)
        + Len(identifiers.functions)
      total_phantoms ==
        Len(phantom_tables) + Len(phantom_columns) + Len(phantom_functions)
  IN  HallucinationReport(phantom_tables, phantom_columns, phantom_functions,
                          Score(total_phantoms, total_identifiers))

\* customers(id, name), with the custom function myf
FunctionsSchema ==
  SchemaOf(W("customers") :>
             TableInfo(<< Column(W("id"), Empty), Column(W("name"), Empty) >>),
           { W("myf") })

\* the Schema Models the callers share
SharedModels == ("shop" :> ShopSchema) @@ ("custom" :> FunctionsSchema)

\* SELECT myf(name) FROM customers
SelectMyf ==
  { TableNode(Empty, Empty, W("customers")), ColumnNode(Empty, W("name")),
    FuncNode(ANONYMOUS, W("myf")) }

\* SELECT IF(id > 0, 1, 0) FROM orders, ghost_table
SelectIf ==
  { TableNode(Empty, Empty, W("orders")), TableNode(Empty, Empty, W("ghost_table")),
    ColumnNode(Empty, W("id")), FuncNode(U("if"), Empty) }

\* SELECT * FROM customers JOIN orders ON customers.id = orders.customer_id
SelectJoin ==
  JoinTreeOf(TableNode(Empty, Empty, W("customers")),
             { JoinNode(TableNode(Empty, Empty, W("orders")), TRUE,
                        << EQ(ColumnNode(W("customers"), W("id")),
                              ColumnNode(W("orders"), W("customer_id"))) >>) })

SharedOps ==
  { "detect", "validate", "verify", "extract_identifiers",
    "get_dialect_functions", "get_valid_join_paths" }

\* the dialect arguments of the calls: "", " Snowflake "
SharedDialects == { DialectStr("", "l", FALSE), DialectStr("snowflake", "m", TRUE) }

\* the arguments an operation is called with; what an operation does not
\* take is left at its idle value
CallsOf(o) ==
  LET no_dialect == { DialectStr("", "l", FALSE) }
  IN  IF o \in { "detect", "validate" }
      THEN { [schema |-> m, dialect |-> d, tree |-> tree, arg |-> Empty] :
               m \in DOMAIN SharedModels, d \in SharedDialects,
               tree \in { SelectMyf, SelectIf } }
      ELSE IF o = "verify"
      THEN { [schema |-> m, dialect |-> d, tree |-> SelectJoin, arg |-> Empty] :
               m \in DOMAIN SharedModels, d \in no_dialect }
      ELSE IF o = "extract_identifiers"
      THEN { [schema |-> "", dialect |-> d, tree |-> tree, arg |-> Empty] :
               d \in no_dialect, tree \in { SelectMyf, SelectIf } }
      ELSE IF o = "get_dialect_functions"
      THEN { [schema |-> "", dialect |-> d, tree |-> NoTree, arg |-> Empty] :
               d \in SharedDialects }
      ELSE { [schema |-> m, dialect |-> d, tree |-> NoTree, arg |-> a] :
               m \in DOMAIN SharedModels, d \in no_dialect,
               a \in { W("customers"), W("regions") } }

\* a caller with no call in progress
NoCall ==
  [pc |-> "idle", op |-> "", schema |-> "", dialect |-> DialectStr("", "l", FALSE),
   tree |-> NoTree, arg |-> Empty, ids |-> NoIds, valid_functions |-> "",
   phantom_tables |-> << >>, phantom_columns |-> << >>, report |-> NoReport,
   report_id |-> 0, result |-> NoResult, result_id |-> 0]

SharedInit ==
  /\ pc = "idle"
  /\ op = ""
  /\ schema = NoSchema
  /\ dialect = DialectStr("", "l", FALSE)
  /\ fb = 1
  /\ ast = NoTree
  /\ ids = NoIds
  /\ report = NoReport
  /\ result = NoResult
  /\ exc = ""
  /\ arg = Empty
  /\ parser = (1 :> SQLParser(DialectStr("", "l", FALSE)))
  /\ self = 1
  /\ sql = NoSql
  /\ tried = << >>
  /\ prev = NoPrev
  /\ objects = StaticObjects @@ [n \in { LocalSet(t) : t \in Callers } |-> {}]
  /\ models = SharedModels
  /\ calls = [t \in Callers |-> NoCall]
  /\ allocated = 0

\* what no call of a caller touches: the variables of the one-caller
\* specifications
SharedFrame ==
  UNCHANGED << pc, op, schema, dialect, fb, ast, ids, report, result, exc, arg,
               parser, self, sql, tried, prev >>

InFlight == Cardinality({ t \in Callers : calls[t].pc # "idle" })

\* Caller t invokes an operation.  A call constructs at most two result
\* objects (validate: the report and the ValidationResult).
SharedCall(t) ==
  /\ calls[t].pc = "idle"
  /\ allocated + 2 * (InFlight + 1) <= MaxObjects
  /\ \E o \in SharedOps : \E c \in CallsOf(o) :
       calls' = [calls EXCEPT ![t] =
                   [NoCall EXCEPT !.pc = IF o = "get_dialect_functions" THEN "functions"
                                         ELSE IF o = "get_valid_join_paths" THEN "paths"
                                         ELSE "parse",
                                  !.op = o, !.schema = c.schema,
                                  !.dialect = c.dialect, !.tree = c.tree,
                                  !.arg = c.arg]]
  /\ UNCHANGED << objects, models, allocated >>
  /\ SharedFrame

\* parser.parse / extract_identifiers in the call of t: the identifiers of
\* the tree; extract_identifiers returns them
SharedParse(t) ==
  /\ calls[t].pc = "parse"
  /\ \E identifiers \in _extract_all_identifiers(calls[t].tree) :
       calls' = [calls EXCEPT ![t] =
                   [@ EXCEPT !.ids = identifiers,
                             !.pc = IF @ # "parse" THEN @
                                    ELSE IF calls[t].op = "extract_identifiers" THEN "done"
                                    ELSE IF calls[t].op = "verify" THEN "joins"
                                    ELSE "tables",
                             !.result = IF calls[t].op = "extract_identifiers"
                                        THEN identifiers ELSE @,
                             !.result_id = IF calls[t].op = "extract_identifiers"
                                           THEN allocated + 1 ELSE @]]
  /\ allocated' = IF calls[t].op = "extract_identifiers" THEN allocated + 1 ELSE allocated
  /\ UNCHANGED << objects, models >>
  /\ SharedFrame

\* detect in the call of t: _detect_phantom_tables and _detect_phantom_columns
\* read the Schema Model
SharedTables(t) ==
  /\ calls[t].pc = "tables"
  /\ LET c == calls[t]
         m == models[c.schema]
     IN  calls' = [calls EXCEPT ![t] =
                     [@ EXCEPT !.phantom_tables = _detect_phantom_tables(c.ids.tables, m),
                               !.phantom_columns =
                                 _detect_phantom_columns(c.ids.columns, c.ids.tables,
                                                         c.ids.aliases, m),
                               !.pc = "functions"]]
  /\ UNCHANGED << objects, models, allocated >>
  /\ SharedFrame

\* get_dialect_functions in the call of t, called by the caller itself or by
\* _detect_phantom_functions
SharedGetDialectFunctions(t) ==
  /\ calls[t].pc = "functions"
  /\ LET got == GetDialectFunctions(objects, calls[t].dialect, LocalSet(t))
     IN  /\ objects' = got.objects
         /\ calls' = [calls EXCEPT ![t] =
                        [@ EXCEPT !.valid_functions = got.functions,
                                  !.pc = IF calls[t].op = "get_dialect_functions"
                                         THEN "done" ELSE "custom",
                                  !.result = IF calls[t].op = "get_dialect_functions"
                                             THEN got.objects[got.functions] ELSE @]]
  /\ UNCHANGED << models, allocated >>
  /\ SharedFrame

\* _detect_phantom_functions in the call of t:
\* valid_functions.update(f.upper() for f in schema.functions)
SharedUpdateCustom(t) ==
  /\ calls[t].pc = "custom"
  /\ objects' = SetUpdate(objects, calls[t].valid_functions,
                          { Upper(f) : f \in models[calls[t].schema].functions })
  /\ calls' = [calls EXCEPT ![t].pc = "check"]
  /\ UNCHANGED << models, allocated >>
  /\ SharedFrame

\* _detect_phantom_functions in the call of t: the loop over the functions,
\* then the end of detect; detect returns the report
SharedReport(t) ==
  /\ calls[t].pc = "check"
  /\ LET c == calls[t]
         valid_functions == objects[c.valid_functions]
         Phantom(func) == IsPhantomFunction(func, valid_functions)
         phantom_functions == SelectSeq(c.ids.functions, Phantom)
         rep == ReportOf(c.ids, c.phantom_tables, c.phantom_columns, phantom_functions)
     IN  calls' = [calls EXCEPT ![t] =
                     [@ EXCEPT !.report = rep, !.report_id = allocated + 1,
                               !.result = IF c.op = "detect" THEN rep ELSE @,
                               !.result_id = IF c.op = "detect" THEN allocated + 1 ELSE @,
                               !.pc = IF c.op = "detect" THEN "done" ELSE "validate"]]
  /\ allocated' = allocated + 1
  /\ UNCHANGED << objects, models >>
  /\ SharedFrame

\* validate in the call of t, after detect returned
SharedValidate(t) ==
  /\ calls[t].pc = "validate"
  /\ calls' = [calls EXCEPT ![t] =
                 [@ EXCEPT !.result = validate(calls[t].report),
                           !.result_id = allocated + 1, !.pc = "done"]]
  /\ allocated' = allocated + 1
  /\ UNCHANGED << objects, models >>
  /\ SharedFrame

\* verify in the call of t, after parser.parse returned
SharedVerify(t) ==
  /\ calls[t].pc = "joins"
  /\ \E r \in verify(calls[t].tree, models[calls[t].schema]) :
       calls' = [calls EXCEPT ![t] =
                   [@ EXCEPT !.result = r, !.result_id = allocated + 1, !.pc = "done"]]
  /\ allocated' = allocated + 1
  /\ UNCHANGED << objects, models >>
  /\ SharedFrame

\* get_valid_join_paths in the call of t
SharedGetValidJoinPaths(t) ==
  /\ calls[t].pc = "paths"
  /\ \E r \in get_valid_join_paths(calls[t].arg, models[calls[t].schema]) :
       calls' = [calls EXCEPT ![t] =
                   [@ EXCEPT !.result = r, !.result_id = allocated + 1, !.pc = "done"]]
  /\ allocated' = allocated + 1
  /\ UNCHANGED << objects, models >>
  /\ SharedFrame

\* the call of t is over; the local variable that referred to the set the
\* call created is gone, and the set with it
SharedReturn(t) ==
  /\ calls[t].pc = "done"
  /\ calls' = [calls EXCEPT ![t] = NoCall]
  /\ objects' = [objects EXCEPT ![LocalSet(t)] = {}]
  /\ UNCHANGED << models, allocated >>
  /\ SharedFrame

SharedNext ==
  \/ \E t \in Callers : SharedCall(t)
  \/ \E t \in Callers : SharedParse(t)
  \/ \E t \in Callers : SharedTables(t)
  \/ \E t \in Callers : SharedGetDialectFunctions(t)
  \/ \E t \in Callers : SharedUpdateCustom(t)
  \/ \E t \in Callers : SharedReport(t)
  \/ \E t \in Callers : SharedValidate(t)
  \/ \E t \in Callers : SharedVerify(t)
  \/ \E t \in Callers : SharedGetValidJoinPaths(t)
  \/ \E t \in Callers : SharedReturn(t)

SharedSpec == SharedInit /\ [][SharedNext]_vars

----------------------------------------------------------------------------
(* The Schema Validator and the detector given the same identifiers.         *)

\* the nodes of the queries given to the validator and to the detector
ValidatorTrees == SubsetsUpTo(TableNodes \cup ColumnNodes \cup AliasNodes, MaxNodes)

\* A caller has the identifiers of a query extracted and gives them, with a
\* Schema Model, to SchemaValidator.validate and to the detector.
CallSchemaValidator ==
  /\ pc = "idle"
  /\ op' = "SchemaValidator.validate"
  /\ schema' \in Schemas
  /\ \E tree \in ValidatorTrees :
       /\ ast' = tree
       /\ ids' \in _extract_all_identifiers(tree)
  /\ pc' = "schema"
  /\ UNCHANGED << other_vars, arg, dialect, fb, report, result, exc >>

\* SchemaValidator.validate returns; the detector is given the same
\* identifiers and schema
SchemaValidate ==
  /\ pc = "schema"
  /\ result' = SchemaValidator_validate(ids, schema)
  /\ pc' = "detect"
  /\ UNCHANGED << other_vars, arg, op, schema, dialect, fb, ast, ids, report, exc >>

ValidatorNext ==
  \/ CallSchemaValidator
  \/ SchemaValidate
  \/ Detect
  \/ Return

ValidatorSpec == Init /\ [][ValidatorNext]_vars

----------------------------------------------------------------------------
(* Properties *)

\* detect has returned: report is the HallucinationReport of this call
ReportReady == op \in { "detect", "validate" } /\ pc \in { "validate", "done" }

\* validate has returned: result is the ValidationResult of this call
ResultReady == op = "validate" /\ pc = "done"

InSeq(x, q) == \E i \in DOMAIN q : q[i] = x

\* C1: whatever the outcomes of the attempts to parse, the call returns a
\* result and no exception leaves it.
C1_NeverRaises == pc # "raised"

\* the function a Func node calls as written in the SQL
FuncSurface(n) == IF n.sql_name = ANONYMOUS /\ n.name # Empty THEN n.name ELSE n.sql_name

\* the tree references only tables stored in the schema, only columns those
\* tables declare (unqualified, or qualified by the table's name) and only
\* functions of the dialect's valid set
OnlyValidReferences ==
  /\ \A n \in NodesOf(ast, "Table") :
       n.name \in DOMAIN schema.tables \/ TableName(n) \in DOMAIN schema.tables
  /\ \A n \in NodesOf(ast, "Column") :
       \E tn \in NodesOf(ast, "Table") :
         LET info == OrElse(TablesGet(schema, tn.name),
                            TablesGet(schema, TableName(tn)))
         IN  /\ ~info.is_none
             /\ \E i \in DOMAIN info.columns : info.columns[i].name = n.name
             /\ n.table \in { Empty, tn.name }
  /\ \A n \in NodesOf(ast, "Func") :
       Upper(FuncSurface(n)) \in ValidFunctions(dialect, schema)

\* C2: a query that references only schema tables, their declared columns
\* and dialect-valid functions gets empty phantom lists and score 0.
C2_ValidQueryHasNoPhantoms ==
  (ReportReady /\ OnlyValidReferences) =>
    /\ report.phantom_tables = << >>
    /\ report.phantom_columns = << >>
    /\ report.phantom_functions = << >>
    /\ report.hallucination_score.num = 0

\* C3: a referenced table is listed in phantom_tables iff has_table fails for
\* its last dot-separated segment and for the name as written.
C3_PhantomTableIff ==
  ReportReady =>
    /\ \A t \in Range(ids.tables) :
         InSeq(t, report.phantom_tables) <=>
           ( ~has_table(schema, << t[Len(t)] >>) /\ ~has_table(schema, t) )
    /\ Range(report.phantom_tables) \subseteq Range(ids.tables)

\* C3 happens: a table whose last segment is unknown but whose spelling as
\* written is stored is not listed, next to a table that is listed.
C3_Witness ==
  /\ ReportReady
  /\ \E t \in Range(ids.tables) :
       /\ ~has_table(schema, LastSegment(t)) /\ has_table(schema, t)
       /\ ~InSeq(t, report.phantom_tables)
  /\ report.phantom_tables # << >>

\* the Table nodes of the tree that name a table absent from the schema
AbsentTableNodes ==
  { n \in NodesOf(ast, "Table") :
      ~has_table(schema, n.name) /\ ~has_table(schema, TableName(n)) }

\* the tree references exactly one absent table, by its bare name
OneAbsentTable ==
  /\ AbsentTableNodes # {}
  /\ \A m, n \in AbsentTableNodes : m.name = n.name

\* C4 as stated: one absent table, however often and however qualified,
\* gives phantom_tables of length exactly 1.
C4_OneAbsentTableOneEntry ==
  (ReportReady /\ OneAbsentTable) =>
    /\ Len(report.phantom_tables) = 1
    /\ \E n \in AbsentTableNodes : report.phantom_tables[1] = TableName(n)

\* C4 amended: one absent table written with one spelling, however often,
\* gives phantom_tables of length exactly 1 holding that spelling; in general
\* phantom_tables holds each distinct spelling of the absent table once.
C4_OneSpellingOneEntry ==
  (ReportReady /\ OneAbsentTable) =>
    /\ Range(report.phantom_tables) = { TableName(n) : n \in AbsentTableNodes }
    /\ Len(report.phantom_tables) =
         Cardinality({ TableName(n) : n \in AbsentTableNodes })
    /\ (\A m, n \in AbsentTableNodes : TableName(m) = TableName(n)) =>
         Len(report.phantom_tables) = 1

\* C4 happens: the absent table is written twice with one spelling, next to
\* a table of the schema, and is listed once.
C4_Witness ==
  /\ ReportReady
  /\ OneAbsentTable
  /\ Cardinality(AbsentTableNodes) = 2
  /\ \A m, n \in AbsentTableNodes : TableName(m) = TableName(n)
  /\ NodesOf(ast, "Table") \ AbsentTableNodes # {}
  /\ Len(report.phantom_tables) = 1


\* the schema table a referenced table name is found as: by its last
\* segment, else by the name as written, else not at all
FoundTable(t) ==
  IF << t[Len(t)] >> \in DOMAIN schema.tables THEN schema.tables[<< t[Len(t)] >>]
  ELSE IF t \in DOMAIN schema.tables THEN schema.tables[t]
  ELSE NoTableInfo

LowerColumnNames(info) == { Lower(info.columns[i].name) : i \in DOMAIN info.columns }

\* the valid set as C5 and C6 describe it: for every referenced table found
\* in the schema each column's bare name and 'table.column' form, plus
\* 'alias.column' for every alias that resolves to a schema table
ClaimedValidSet ==
  UNION { LowerColumnNames(FoundTable(t))
          \cup { Lower(<< t[Len(t)] >>) \o c : c \in LowerColumnNames(FoundTable(t)) } :
          t \in Range(ids.tables) }
  \cup
  UNION { { Lower(a) \o c : c \in LowerColumnNames(TablesGet(schema, ids.aliases[a])) } :
          a \in DOMAIN ids.aliases }

\* the lower-cased column names of the whole schema
SchemaColumnNames ==
  UNION { LowerColumnNames(schema.tables[k]) : k \in DOMAIN schema.tables }

\* C5: a column reference with a table qualifier is listed in phantom_columns
\* iff neither its lower-cased 'qualifier.column' form nor its lower-cased
\* bare column name is in the valid set.
C5_QualifiedPhantomIff ==
  ReportReady =>
    \A col \in Range(ids.columns) :
      Len(col) > 1 =>
        ( InSeq(col, report.phantom_columns) <=>
            ( Lower(col) \notin ClaimedValidSet
              /\ Lower(<< col[Len(col)] >>) \notin ClaimedValidSet ) )

\* C5 happens: a qualified column is valid only by the 'alias.column' form of
\* an alias that resolves to a schema table, next to a qualified column that
\* is listed.
C5_Witness ==
  /\ ReportReady
  /\ \E col \in Range(ids.columns) :
       /\ Len(col) > 1
       /\ Lower(col) \in ClaimedValidSet
       /\ Lower(LastSegment(col)) \notin ClaimedValidSet
       /\ ~InSeq(col, report.phantom_columns)
  /\ \E col \in Range(ids.columns) :
       Len(col) > 1 /\ InSeq(col, report.phantom_columns)

\* C6: an unqualified column reference is listed in phantom_columns iff its
\* lower-cased name is neither in the valid set nor the lower-cased name of a
\* column of any table of the schema.
C6_UnqualifiedPhantomIff ==
  ReportReady =>
    \A col \in Range(ids.columns) :
      Len(col) = 1 =>
        ( InSeq(col, report.phantom_columns) <=>
            ( Lower(col) \notin ClaimedValidSet
              /\ Lower(col) \notin SchemaColumnNames ) )

\* C6 happens: an unqualified column of a table that is not referenced is
\* accepted, and an unqualified column no schema table has is listed.
C6_Witness ==
  /\ ReportReady
  /\ \E col \in Range(ids.columns) :
       /\ Len(col) = 1
       /\ Lower(col) \notin ClaimedValidSet
       /\ Lower(col) \in SchemaColumnNames
       /\ ~InSeq(col, report.phantom_columns)

\* C6 happens, other side: an unqualified column no schema table has is listed
C6_WitnessListed ==
  /\ ReportReady
  /\ \E col \in Range(ids.columns) :
       Len(col) = 1 /\ InSeq(col, report.phantom_columns)

\* table T of the schema declares column c, T is referenced by the name r and
\* no other referenced table declares c
OnlyReferencedTableWith(T, r, c) ==
  /\ T \in DOMAIN schema.tables
  /\ InSeq(r, ids.tables)
  /\ LastSegment(r) = T
  /\ c \in LowerColumnNames(schema.tables[T])
  /\ \A r2 \in Range(ids.tables) :
       (r2 # r /\ c \in LowerColumnNames(FoundTable(r2))) => FoundTable(r2) = FoundTable(r)

\* the column references 'T.c' and 'c', in any letter case of c
RefersTo(col, T, c) ==
  /\ Lower(LastSegment(col)) = c
  /\ Len(col) = 1 \/ (Len(col) = 2 /\ << col[1] >> = T)

\* C7: when T is in the schema with column c and is the only referenced table
\* containing c, neither 'T.c' nor 'c' is a phantom column of detect or a
\* column error of validate.
C7_QualifiedAndBareValidate ==
  ReportReady =>
    \A T \in DOMAIN schema.tables :
      \A r \in Range(ids.tables) :
        \A c \in LowerColumnNames(schema.tables[T]) :
          \A col \in Range(ids.columns) :
            (RefersTo(col, T, c) /\ OnlyReferencedTableWith(T, r, c)) =>
              /\ ~InSeq(col, report.phantom_columns)
              /\ ResultReady => ~InSeq(Message("Column", col), result.errors)

\* C7 happens: validate returned for a query that references T and both
\* 'T.c' and 'c'.
C7_Witness ==
  /\ ResultReady
  /\ \E T \in DOMAIN schema.tables :
       \E r \in Range(ids.tables) :
         \E c \in LowerColumnNames(schema.tables[T]) :
           /\ OnlyReferencedTableWith(T, r, c)
           /\ \E col \in Range(ids.columns) : RefersTo(col, T, c) /\ Len(col) = 1
           /\ \E col \in Range(ids.columns) : RefersTo(col, T, c) /\ Len(col) = 2
  /\ result.is_valid


\* a node with its table name, column name and column qualifier in lower case
LowerNode(n) ==
  IF n.kind \in { "Table", "Column" }
  THEN [n EXCEPT !.name = Lower(@), !.table = Lower(@)]
  ELSE n

\* the query written with lower-case table names, column names and qualifiers
LowerTree(tree) == { LowerNode(n) : n \in tree }

\* the validation outcome of a query: is_valid, number of phantom tables,
\* number of phantom columns
Outcome(identifiers) ==
  LET rep == detect(identifiers, schema, dialect)
  IN  << validate(rep).is_valid, Len(rep.phantom_tables), Len(rep.phantom_columns) >>

\* the schema's entries, stored in lower case, match the identifiers of the
\* tree up to letter case
SchemaMatchesUpToCase ==
  /\ \A k \in DOMAIN schema.tables : k = Lower(k)
  /\ \A n \in NodesOf(ast, "Table") :
       \E k \in DOMAIN schema.tables : Lower(k) = Lower(n.name)
  /\ \A n \in NodesOf(ast, "Column") :
       \E tn \in NodesOf(ast, "Table") :
         \E k \in DOMAIN schema.tables :
           /\ Lower(k) = Lower(tn.name)
           /\ Lower(n.name) \in LowerColumnNames(schema.tables[k])
           /\ n.table = Empty \/ Lower(n.table) = Lower(tn.name)

\* C8: validation is case-insensitive: a query and the query that differs from
\* it only in the letter case of table names, column names and qualifiers
\* have the same is_valid and the same numbers of phantom tables and columns
\* (stated for schemas stored in lower case, where has_table accepts a table
\* name in every letter case).
C8_CaseInsensitive ==
  (ReportReady /\ SchemaMatchesUpToCase) =>
    \A ids2 \in _extract_all_identifiers(LowerTree(ast)) :
      Outcome(ids2) = Outcome(ids)

\* the union C9 names: common functions, those of the normalized dialect,
\* the schema's custom functions
ClaimedFunctionUnion ==
  COMMON_FUNCTIONS
  \cup ( IF _normalize_dialect(dialect) = "bigquery" THEN BIGQUERY_FUNCTIONS
         ELSE IF _normalize_dialect(dialect) = "snowflake" THEN SNOWFLAKE_FUNCTIONS
         ELSE {} )
  \cup { Upper(f) : f \in schema.functions }

\* the recognized aliases C9 names
RecognizedAlias(F) ==
  \/ F = U("anonymous")
  \/ F = U("if") /\ U("iff") \in ClaimedFunctionUnion
  \/ F = U("substr") /\ U("substring") \in ClaimedFunctionUnion
  \/ F = U("len") /\ U("length") \in ClaimedFunctionUnion
  \/ F = U("charindex") /\ U("position") \in ClaimedFunctionUnion

\* C9: a function is listed in phantom_functions iff its upper-cased name is
\* absent from the union and it is not a recognized alias; under dialect
\* snowflake IF is not listed.
C9_PhantomFunctionIff ==
  ReportReady =>
    /\ \A f \in Range(ids.functions) :
         InSeq(f, report.phantom_functions) <=>
           ( Upper(f) \notin ClaimedFunctionUnion /\ ~RecognizedAlias(Upper(f)) )
    /\ ( _normalize_dialect(dialect) = "snowflake" /\ InSeq(U("if"), ids.functions) )
         => ~InSeq(U("if"), report.phantom_functions)

\* C9 happens: under snowflake IF is extracted and accepted as the alias of
\* IFF, while CHARINDEX, whose target POSITION is absent, is listed.
C9_Witness ==
  /\ ReportReady
  /\ _normalize_dialect(dialect) = "snowflake"
  /\ InSeq(U("if"), ids.functions)
  /\ U("if") \notin ClaimedFunctionUnion
  /\ ~InSeq(U("if"), report.phantom_functions)
  /\ InSeq(U("charindex"), report.phantom_functions)

\* C10: the score lies in [0,1], and a query without tables, columns and
\* functions has score 0 with a non-zero divisor.
C10_ScoreInUnitInterval ==
  ReportReady =>
    /\ report.hallucination_score.den >= 1
    /\ 0 <= report.hallucination_score.num
    /\ report.hallucination_score.num <= report.hallucination_score.den
    /\ report.hallucination_score.num
         = Len(report.phantom_tables) + Len(report.phantom_columns)
           + Len(report.phantom_functions)
    /\ ( ids.tables = << >> /\ ids.columns = << >> /\ ids.functions = << >> )
         => report.hallucination_score.num = 0

\* C10 happens: detect returned for a query without any identifier.
C10_Witness ==
  /\ ReportReady
  /\ ids.tables = << >> /\ ids.columns = << >> /\ ids.functions = << >>
  /\ report.hallucination_score = [num |-> 0, den |-> 1]

\* the numbers of distinct table, column and function names of the tree
DistinctIdentifiers ==
  Cardinality({ TableName(n) : n \in NodesOf(ast, "Table") })
  + Cardinality({ ColumnName(n) : n \in NodesOf(ast, "Column") })
  + Cardinality({ FuncName(n) : n \in NodesOf(ast, "Func") })

\* C11: the score of the report is the number of phantoms over
\* max(1, number of deduplicated extracted identifiers), and
\* total_hallucinations is the sum of the three phantom list lengths.
C11_ScoreFormula ==
  ReportReady =>
    LET phantoms == Len(report.phantom_tables) + Len(report.phantom_columns)
                    + Len(report.phantom_functions)
    IN  /\ report.hallucination_score.num = phantoms
        /\ report.hallucination_score.den = Max(1, DistinctIdentifiers)
        /\ report.hallucination_score.den
             = Max(1, Len(ids.tables) + Len(ids.columns) + Len(ids.functions))
        /\ report.total_hallucinations = phantoms

\* C11 happens: a tree of three nodes, two of them the same absent table,
\* gives two identifiers, one phantom: score 1/2, total_hallucinations 1.
C11_Witness ==
  /\ ReportReady
  /\ Cardinality(ast) = 3
  /\ Cardinality(AbsentTableNodes) = 2
  /\ report.hallucination_score = [num |-> 1, den |-> 2]
  /\ report.total_hallucinations = 1

\* the tree of SELECT name, age FROM customers
SelectNameAge ==
  { TableNode(Empty, Empty, W("customers")), ColumnNode(Empty, W("name")),
    ColumnNode(Empty, W("age")) }

\* C12 as stated: for customers(id, name, email) and SELECT name, age FROM
\* customers, detect returns phantom_columns == ["age"], phantom_tables == []
\* and hallucination_score == 1/2.
C12_ScenarioScoreHalf ==
  (ReportReady /\ schema = CustomersSchema /\ ast = SelectNameAge) =>
    /\ report.phantom_columns = << W("age") >>
    /\ report.phantom_tables = << >>
    /\ 2 * report.hallucination_score.num = report.hallucination_score.den

\* C12 amended: for customers(id, name, email) and SELECT name, age FROM
\* customers, detect returns phantom_columns == ["age"], phantom_tables == []
\* and hallucination_score == 1/3: one phantom over the three identifiers
\* customers, name and age.
C12_ScenarioScoreThird ==
  (ReportReady /\ schema = CustomersSchema /\ ast = SelectNameAge) =>
    /\ report.phantom_columns = << W("age") >>
    /\ report.phantom_tables = << >>
    /\ report.phantom_functions = << >>
    /\ report.hallucination_score = [num |-> 1, den |-> 3]

\* C12 happens: detect returned for SELECT name, age FROM customers against
\* customers(id, name, email).
C12_Witness ==
  /\ ReportReady
  /\ schema = CustomersSchema
  /\ ast = SelectNameAge
  /\ ids.tables = << W("customers") >>
  /\ Range(ids.columns) = { W("name"), W("age") }
  /\ report.total_hallucinations = 1

\* the query's only identifier is the table t, absent from the schema
OnlyAbsentTable(t) ==
  /\ ids.tables = << t >>
  /\ ids.columns = << >>
  /\ ids.functions = << >>
  /\ ~has_table(schema, LastSegment(t)) /\ ~has_table(schema, t)

\* C13: for a query whose only identifier is a table absent from the schema
\* (SELECT * FROM ghost_table), validate returns phantom_tables == [that
\* table], is_valid == False and exactly one error, which names the table.
C13_GhostTableInvalid ==
  ResultReady =>
    \A t \in Range(ids.tables) :
      OnlyAbsentTable(t) =>
        /\ result.hallucination_report.phantom_tables = << t >>
        /\ result.is_valid = FALSE
        /\ Len(result.errors) = 1
        /\ result.errors[1].id = t

\* C13 happens: validate returned for SELECT * FROM ghost_table against a
\* schema without ghost_table.
C13_Witness ==
  /\ ResultReady
  /\ schema = CustomersSchema
  /\ ast = { TableNode(Empty, Empty, W("ghost_table")) }
  /\ OnlyAbsentTable(W("ghost_table"))
  /\ result.errors = << Message("Table", W("ghost_table")) >>

\* C14: the errors of validate are one string per phantom table followed by
\* one per phantom column, the warnings one string per phantom function,
\* is_valid holds iff there is no error, and the report of detect is
\* embedded; a query whose only phantoms are functions is valid.
C14_ValidateStructure ==
  ResultReady =>
    LET nt == Len(report.phantom_tables)
        nc == Len(report.phantom_columns)
    IN  /\ Len(result.errors) = nt + nc
        /\ \A i \in 1..nt : result.errors[i] = Message("Table", report.phantom_tables[i])
        /\ \A i \in 1..nc :
             result.errors[nt + i] = Message("Column", report.phantom_columns[i])
        /\ Len(result.warnings) = Len(report.phantom_functions)
        /\ \A i \in DOMAIN report.phantom_functions :
             result.warnings[i] = Message("Function", report.phantom_functions[i])
        /\ result.is_valid <=> (result.errors = << >>)
        /\ result.hallucination_report = report
        /\ (nt = 0 /\ nc = 0 /\ report.phantom_functions # << >>) => result.is_valid

\* C14 happens: validate returned a valid result with a warning for a query
\* whose only phantom is a function.
C14_Witness ==
  /\ ResultReady
  /\ report.phantom_tables = << >> /\ report.phantom_columns = << >>
  /\ report.phantom_functions # << >>
  /\ result.is_valid
  /\ Len(result.warnings) = 1

\* C14 happens, errors: a table error ahead of a column error
C14_WitnessErrors ==
  /\ ResultReady
  /\ Len(result.errors) = 2
  /\ result.errors[1].kind = "Table" /\ result.errors[2].kind = "Column"
  /\ ~result.is_valid

\* verify has returned: result is its ValidationResult
VerifyReady == op = "verify" /\ pc = "done"

\* the (left_name, right_name) pairs of the ON clauses verify looks at: those
\* of the joins of a table that carry an ON clause
VerifiedPairs ==
  UNION { Range(_extract_join_columns(j.on)) :
          j \in { k \in NodesOf(ast, "Join") : k.this.kind = "Table" /\ k.has_on } }

VerifiedEqs ==
  UNION { { j.on[i] : i \in { k \in DOMAIN j.on :
                               j.on[k].left.kind = "Column" /\ j.on[k].right.kind = "Column" } } :
          j \in { k \in NodesOf(ast, "Join") : k.this.kind = "Table" /\ k.has_on } }

\* the tables a column operand may belong to: the table its qualifier names,
\* directly or as a table alias; any referenced table when it has no qualifier
SideTables(col) ==
  IF col.table = Empty
  THEN { n.name : n \in NodesOf(ast, "Table") }
  ELSE IF \E n \in NodesOf(ast, "Table") : n.alias = col.table
       THEN { n.name : n \in { m \in NodesOf(ast, "Table") : m.alias = col.table } }
       ELSE { col.table }

\* the schema declares a foreign key from column c of table T into table T2
DeclaresForeignKey(T, c, T2) ==
  \E k \in DOMAIN schema.tables :
    /\ Lower(k) = Lower(T)
    /\ \E i \in DOMAIN schema.tables[k].columns :
         LET col == schema.tables[k].columns[i]
         IN  /\ Lower(col.name) = Lower(c)
             /\ col.foreign_key # Empty
             /\ Lower(SubSeq(col.foreign_key, 1, Len(col.foreign_key) - 1)) = Lower(T2)

\* a foreign key leads from one side of the equality to the table of the other
ForeignKeyBetween(eq) ==
  \E L \in SideTables(eq.left), R \in SideTables(eq.right) :
    \/ DeclaresForeignKey(L, eq.left.name, R)
    \/ DeclaresForeignKey(R, eq.right.name, L)

\* C16: the join path of every ON-clause equality pair is computed valid iff
\* the schema declares a foreign key from the left side's table/column to the
\* right side's table or from the right side's table/column to the left
\* side's table, and the computed validity is the same with the sides swapped.
C16_ValidIffForeignKey ==
  VerifyReady =>
    \A eq \in VerifiedEqs :
      LET left_name == ColumnName(eq.left)
          right_name == ColumnName(eq.right)
      IN  /\ _is_valid_join_path(left_name, right_name, schema) <=> ForeignKeyBetween(eq)
          /\ _is_valid_join_path(left_name, right_name, schema)
               = _is_valid_join_path(right_name, left_name, schema)

\* customers c JOIN orders o ON c.id = o.customer_id, in either operand order
AliasJoin(eq) ==
  /\ AliasedTable(W("customers"), W("c")) \in ast
  /\ AliasedTable(W("orders"), W("o")) \in ast
  /\ \/ eq = EQ(ColumnNode(W("c"), W("id")), ColumnNode(W("o"), W("customer_id")))
     \/ eq = EQ(ColumnNode(W("o"), W("customer_id")), ColumnNode(W("c"), W("id")))

\* C17: for customers c JOIN orders o ON c.id = o.customer_id, where
\* orders.customer_id declares the foreign key customers.id, the pair
\* (c.id, o.customer_id) is found valid, in either operand order.
C17_AliasJoinValid ==
  (VerifyReady /\ schema = ShopSchema) =>
    \A eq \in VerifiedEqs :
      AliasJoin(eq) =>
        _is_valid_join_path(ColumnName(eq.left), ColumnName(eq.right), schema)

\* get_valid_join_paths has returned: result is its list
PathsReady == op = "get_valid_join_paths" /\ pc = "done"

\* the table a foreign key "table.column" names
ForeignKeyTable(fk) == SubSeq(fk, 1, Len(fk) - 1)

\* the foreign keys the columns of the schema table k declare
ForeignKeysOf(k) ==
  { schema.tables[k].columns[i].foreign_key : i \in DOMAIN schema.tables[k].columns }
  \ { Empty }

\* the tables connected to arg by a foreign key: those its columns name and
\* the other tables with a column naming it
ConnectedTables ==
  IF arg \in DOMAIN schema.tables
  THEN { ForeignKeyTable(fk) : fk \in ForeignKeysOf(arg) }
       \cup { k \in DOMAIN schema.tables \ { arg } :
                \E fk \in ForeignKeysOf(k) : ForeignKeyTable(fk) = arg }
  ELSE {}

\* C18: get_valid_join_paths returns, without duplicates, exactly the tables
\* connected to the given table by a foreign key, outgoing or incoming, and
\* the empty list for a table that is not in the schema.
C18_JoinPathsExact ==
  PathsReady =>
    /\ \A i, j \in DOMAIN result : result[i] = result[j] => i = j
    /\ Range(result) = ConnectedTables
    /\ arg \notin DOMAIN schema.tables => result = << >>

\* C18 happens: depts names employees by a foreign key and is named by a
\* foreign key of employees; employees is returned once.
C18_Witness ==
  /\ PathsReady
  /\ schema = StaffSchema
  /\ arg = W("depts")
  /\ result = << W("employees") >>

\* _normalize_dialect has returned: result is the canonical dialect or None
NormalizeReady == op = "_normalize_dialect" /\ pc = "done"

\* the dialect names and aliases the normalization recognizes
RecognizedNames ==
  { "postgres", "postgresql", "sqlite", "duckdb", "bigquery", "snowflake",
    "clickhouse", "mysql" }

\* C19 as stated: the empty string and every string that is not a recognized
\* dialect name normalize to the absence of a canonical dialect.
C19_UnrecognizedIsAbsent ==
  (NormalizeReady /\ dialect.w \notin RecognizedNames) => result = None

\* C19 amended: the empty string and every string of blanks normalize to the
\* absence of a canonical dialect; any other string that is not a recognized
\* dialect name normalizes to itself, lower-cased and trimmed, as the dialect
\* value; the normalization returns in every case.
C19_UnrecognizedPassesThrough ==
  (NormalizeReady /\ dialect.w \notin RecognizedNames) =>
    /\ dialect.w = "" => result = None
    /\ dialect.w # "" => result = dialect.w
    /\ exc = ""

\* C19 happens: " Oracle " was normalized to "oracle".
C19_Witness ==
  /\ NormalizeReady
  /\ dialect = DialectStr("oracle", "m", TRUE)
  /\ result = "oracle"

\* the canonical identifier of a recognized name
CanonicalOf(w) == IF w = "postgresql" THEN "postgres" ELSE w

\* C20: every spelling of a recognized name or alias, in any letter case and
\* with leading or trailing blanks, normalizes to the same canonical
\* identifier, and a canonical identifier normalizes to itself.
C20_CaseAndBlanksIgnored ==
  (NormalizeReady /\ dialect.w \in RecognizedNames) =>
    /\ result = CanonicalOf(dialect.w)
    /\ \A c \in { "l", "u", "m" }, pad \in BOOLEAN :
         _normalize_dialect(DialectStr(dialect.w, c, pad)) = result
    /\ _normalize_dialect(DialectStr(result, "l", FALSE)) = result

\* C20 happens: " PostgreSQL " was normalized to "postgres".
C20_Witness ==
  /\ NormalizeReady
  /\ dialect = DialectStr("postgresql", "m", TRUE)
  /\ result = "postgres"

----------------------------------------------------------------------------
(* Properties of the parser called directly *)

\* a call on the parser is over, by a return or by an exception
ParserLeft == op \in ParserOps /\ pc \in { "done", "raised" }

\* parse has returned: result is the ParsedSQL of this call
ParseReady == op = "parse" /\ pc = "done"

\* the dialect the call attempted first
Primary == normalized_dialect(parser[self], dialect)

\* the fallback dialects in their order, without the dialect d
FallbacksWithout(d) ==
  LET Other(f) == f # d
  IN  SelectSeq(<< "postgres", "bigquery", "snowflake", None >>, Other)

\* the first entry of q under which the text parses, 0 when there is none
FirstParsing(q) ==
  IF \E i \in DOMAIN q : sql[q[i]].raises = ""
  THEN CHOOSE i \in DOMAIN q :
         /\ sql[q[i]].raises = ""
         /\ \A j \in 1..(i - 1) : sql[q[j]].raises # ""
  ELSE 0

\* the attempts that follow a failed primary attempt: the fallbacks up to the
\* first that parses, the error-tolerant attempt when none does
AttemptsAfter(d) ==
  LET q == FallbacksWithout(d)
      k == FirstParsing(q)
  IN  IF k > 0 THEN SubSeq(q, 1, k) ELSE q \o << IGNORE >>

\* C21: when the primary attempt fails, the fallback dialects are tried in
\* the order postgres, bigquery, snowflake, auto-detect, skipping exactly the
\* dialect already attempted; the first attempt that succeeds ends the
\* attempts and its tree is the one returned; the error-tolerant attempt is
\* made only after every fallback has failed.
C21_FallbackOrder ==
  (ParserLeft /\ sql[Primary].raises # "") =>
    /\ tried = << Primary >> \o AttemptsAfter(Primary)
    /\ ParseReady => result.ast = sql[tried[Len(tried)]].tree

\* C21 for a primary attempt that fails with sqlglot.errors.ParseError
C21_FallbackOrderAfterParseError ==
  (ParserLeft /\ sql[Primary].raises = "ParseError") =>
    /\ tried = << Primary >> \o AttemptsAfter(Primary)
    /\ ParseReady => result.ast = sql[tried[Len(tried)]].tree

\* extract_identifiers has returned: result is the IdentifierSet of this call
IdentifiersReady == op = "extract_identifiers" /\ pc = "done"

\* two IdentifierSets equal as sets, with equal alias maps
SameIdentifiers(a, b) ==
  /\ Range(a.tables) = Range(b.tables)
  /\ Range(a.columns) = Range(b.columns)
  /\ Range(a.functions) = Range(b.functions)
  /\ a.aliases = b.aliases

\* the caller has kept the IdentifierSet of an earlier call with the same
\* text and the same dialect argument as the call that has now returned
CalledTwice == IdentifiersReady /\ prev.kept /\ prev.dialect = dialect

\* C22 as stated: two calls of extract_identifiers with the same SQL and
\* dialect, on the same or on different parser instances, with any calls in
\* between, return identifier sets equal as sets and equal alias maps.
C22_Idempotent == CalledTwice => SameIdentifiers(prev.ids, result)

\* C22 amended: two calls of extract_identifiers with the same SQL and
\* dialect, on the same parser instance or on instances with the same
\* default dialect, with any calls in between, return identifier sets equal
\* as sets and equal alias maps.
C22_IdempotentSameDefault ==
  (CalledTwice /\ parser[prev.self].default_dialect = parser[self].default_dialect) =>
    SameIdentifiers(prev.ids, result)

\* C22 happens: a second call on another instance with the same default
\* dialect returned the tables in another order than the first.
C22_Witness ==
  /\ CalledTwice
  /\ prev.self # self
  /\ parser[prev.self].default_dialect = parser[self].default_dialect
  /\ prev.ids.tables # result.tables
  /\ Len(result.columns) = 1

----------------------------------------------------------------------------
(* Properties of the shared engine *)

\* detect has returned in the call of caller t
HasReport(t) ==
  calls[t].op \in { "detect", "validate" } /\ calls[t].pc \in { "validate", "done" }

\* the custom functions a Schema Model declares, as the detector compares them
CustomFunctions(m) == { Upper(f) : f \in m.functions }

\* a function no table of sql_parser.py holds and some shared Schema Model,
\* but not m, declares
CustomElsewhere(F, m) ==
  /\ \E n \in DOMAIN SharedModels : F \in CustomFunctions(SharedModels[n])
  /\ F \notin CustomFunctions(m)
  /\ F \notin COMMON_FUNCTIONS \cup BIGQUERY_FUNCTIONS \cup SNOWFLAKE_FUNCTIONS

\* C23: no public operation changes a Schema Model or the function tables of
\* the dialects: after any calls of detect, validate, verify,
\* extract_identifiers, get_valid_join_paths and get_dialect_functions the
\* COMMON, BIGQUERY and SNOWFLAKE function sets and the Schema Models are what
\* they were, so a custom function that only another call's schema declares
\* is reported as phantom.
C23_SharedDataUnchanged ==
  /\ \A n \in StaticNames : objects[n] = StaticObjects[n]
  /\ models = SharedModels
  /\ \A t \in Callers :
       HasReport(t) =>
         \A i \in DOMAIN calls[t].ids.functions :
           CustomElsewhere(calls[t].ids.functions[i], models[calls[t].schema])
             => InSeq(calls[t].ids.functions[i], calls[t].report.phantom_functions)

\* C23 happens: a detect call with the schema that declares myf accepted
\* MYF, and a detect call that got its report later, with the schema that
\* does not declare it, reported MYF.
C23_Witness ==
  \E t, u \in Callers :
    /\ HasReport(t) /\ HasReport(u)
    /\ calls[t].schema = "custom" /\ calls[u].schema = "shop"
    /\ calls[t].report_id < calls[u].report_id
    /\ calls[t].ids.functions = << U("myf") >>
    /\ calls[t].report.phantom_functions = << >>
    /\ calls[u].report.phantom_functions = << U("myf") >>
    /\ objects["COMMON_FUNCTIONS"] = COMMON_FUNCTIONS

\* the results the call c may return when no other call is in progress
Alone(c) ==
  LET m == SharedModels[c.schema]
  IN  IF c.op = "detect" THEN { detect(c.ids, m, c.dialect) }
      ELSE IF c.op = "validate" THEN { validate(detect(c.ids, m, c.dialect)) }
      ELSE verify(c.tree, m)

\* detect, validate or verify has returned in the call of caller t
Answered(t) ==
  calls[t].op \in { "detect", "validate", "verify" } /\ calls[t].pc = "done"

\* the result objects the call of caller t has constructed
Constructed(t) == { calls[t].report_id, calls[t].result_id } \ { 0 }

\* C24: calls of detect, validate and verify made at the same time on the
\* shared detector, verifier, parser and Schema Models need no
\* coordination: however their statements interleave, each call returns
\* what it returns when it runs alone, and the result objects of one call
\* are objects of no other call.
C24_ConcurrentCallsSafe ==
  /\ \A t \in Callers : Answered(t) => calls[t].result \in Alone(calls[t])
  /\ \A t, u \in Callers :
       (t # u /\ Answered(t) /\ Answered(u)) =>
         /\ Constructed(t) # {} /\ Constructed(u) # {}
         /\ Constructed(t) \cap Constructed(u) = {}

\* C24 happens: two validate calls of the same query overlapped, one with
\* the schema that declares myf and one with the schema that does not; the
\* second got its report between the report and the result of the first.
C24_Witness ==
  \E t, u \in Callers :
    /\ t # u /\ Answered(t) /\ Answered(u)
    /\ calls[t].op = "validate" /\ calls[u].op = "validate"
    /\ calls[t].schema = "custom" /\ calls[u].schema = "shop"
    /\ calls[t].tree = SelectMyf /\ calls[u].tree = SelectMyf
    /\ calls[t].report_id < calls[u].report_id
    /\ calls[u].report_id < calls[t].result_id
    /\ Len(calls[u].result.warnings) = 1
    /\ calls[t].result.warnings = << >>

----------------------------------------------------------------------------
(* Properties of the extracted identifiers *)

\* the identifiers of the tree have been extracted in this call
IdentifiersExtracted == op \in Ops /\ pc \in { "detect", "validate", "done" }

\* q lists no entry twice
NoDuplicate(q) == \A i, j \in DOMAIN q : q[i] = q[j] => i = j

\* the qualifier q followed by a dot when there is one
Dotted(q) == IF q = Empty THEN << >> ELSE q

\* C25: the IdentifierSet of a tree lists no table, no column and no
\* function twice; its tables are the names catalog.schema.table of the
\* Table nodes with the absent qualifiers left out, its columns the names
\* table.column of the qualified and the bare names of the unqualified
\* Column nodes, and every function name is in upper case.
C25_IdentifierSetWellFormed ==
  IdentifiersExtracted =>
    /\ NoDuplicate(ids.tables) /\ NoDuplicate(ids.columns) /\ NoDuplicate(ids.functions)
    /\ Range(ids.tables) =
         { Dotted(n.catalog) \o Dotted(n.db) \o n.name : n \in NodesOf(ast, "Table") }
    /\ Range(ids.columns) =
         { Dotted(n.table) \o n.name : n \in NodesOf(ast, "Column") }
    /\ \A i \in DOMAIN ids.functions : Upper(ids.functions[i]) = ids.functions[i]
    /\ Cardinality(Range(ids.functions)) <= Cardinality(NodesOf(ast, "Func"))

\* C25 happens: g, written twice, and k.s.g gave the two tables g and
\* k.s.g.
C25_Witness ==
  /\ IdentifiersExtracted
  /\ Cardinality(NodesOf(ast, "Table")) = 3
  /\ Range(ids.tables) = { W("g"), W("k") \o W("s") \o W("g") }
  /\ Len(ids.tables) = 2

----------------------------------------------------------------------------
(* Properties of the Schema Validator *)

\* SchemaValidator.validate and the detector have both answered for the same
\* identifiers and schema
ValidatorReady == op = "SchemaValidator.validate" /\ pc = "done"

\* the identifiers the errors of the given wording name
ErrorsAbout(kind) ==
  { result.errors[i].id : i \in { j \in DOMAIN result.errors : result.errors[j].kind = kind } }

\* C26: for the same IdentifierSet and schema SchemaValidator.validate
\* reports a table error for exactly the tables the detector lists as
\* phantom and a column error for exactly the columns the detector lists as
\* phantom, and its is_valid is the is_valid the detector's validate gives.
C26_ValidatorAgreesWithDetector ==
  ValidatorReady =>
    /\ ErrorsAbout("Table does not exist") = Range(report.phantom_tables)
    /\ ErrorsAbout("Column does not exist") = Range(report.phantom_columns)
    /\ result.is_valid = validate(report).is_valid

\* the stored table names that Q spells in some letter case
StoredAs(Q) == { T \in DOMAIN schema.tables : Lower(T) = Lower(Q) }

\* the stored tables the qualifier Q stands for: the table it names, or the
\* table the alias Q is bound to
QualifiedTables(Q) ==
  StoredAs(Q)
  \cup (IF Q \in DOMAIN ids.aliases THEN StoredAs(ids.aliases[Q]) ELSE {})

\* C27: SchemaValidator.validate reports no column error for a column Q.c
\* when Q is the name of a table of the schema, in any letter case, or an
\* alias bound to one, and that table declares c, letter case ignored.
C27_QualifiedColumnAccepted ==
  ValidatorReady =>
    \A i \in DOMAIN ids.columns :
      LET col == ids.columns[i]
      IN  (Len(col) = 2
           /\ \E T \in QualifiedTables(SubSeq(col, 1, 1)) :
                Lower(LastSegment(col)) \in LowerColumnNames(schema.tables[T]))
          => col \notin ErrorsAbout("Column does not exist")


\* the dialect the caller asked for: the normalized dialect argument, the
\* default of the instance when that is None, "auto" when both are None
Requested ==
  LET given == _normalize_dialect(dialect)
      default == parser[self].default_dialect
  IN  IF given # None THEN given ELSE IF default # None THEN default ELSE "auto"

\* C28: the dialect field of the ParsedSQL that parse returns is the
\* normalized requested dialect (the default of the parser when none is
\* given, "auto" when neither exists) whichever attempt produced the tree,
\* and the ParsedSQL holds nothing but the tree, that dialect, the
\* identifiers of the tree and the text: the attempt cannot be told from it.
C28_DialectIsRequested ==
  ParseReady =>
    /\ result.dialect = Requested
    /\ \E identifiers \in _extract_all_identifiers(sql[tried[Len(tried)]].tree) :
         result = ParsedSQL(sql[tried[Len(tried)]].tree, Requested,
                            identifiers.tables, identifiers.columns,
                            identifiers.functions, identifiers.aliases, sql)

\* C28 happens: parse on SQLParser("bigquery") without a dialect argument
\* returned the tree of the error-tolerant attempt, labelled bigquery.
C28_Witness ==
  /\ ParseReady
  /\ _normalize_dialect(dialect) = None
  /\ tried = << "bigquery", "postgres", "snowflake", None, IGNORE >>
  /\ result.dialect = "bigquery"
  /\ result.ast = QuotedAsColumn


\* validate_syntax is over, by a return or by an exception
SyntaxLeft == op = "validate_syntax" /\ pc \in { "done", "raised" }

\* C29: validate_syntax never raises; it returns (False, message) with a
\* message that is not empty when the text does not parse under the given
\* dialect, and (True, None) when it does.
C29_ValidateSyntaxTellsDialect ==
  SyntaxLeft =>
    /\ pc = "done"
    /\ IF sql[Primary].raises # ""
       THEN result[1] = FALSE /\ result[2] \notin { "", None }
       ELSE result = << TRUE, None >>

\* the part of C29 the code keeps: validate_syntax never raises, and answers
\* (True, None) when the text parses under the given dialect
C29_ValidateSyntaxNeverRaises ==
  SyntaxLeft =>
    /\ pc = "done"
    /\ sql[Primary].raises = "" => result = << TRUE, None >>
    /\ result[1] = FALSE => result[2] \notin { "", None }


\* every foreign key of the schema names a table of the schema by its stored
\* spelling
WellFormed ==
  \A k \in DOMAIN schema.tables :
    \A fk \in ForeignKeysOf(k) : ForeignKeyTable(fk) \in DOMAIN schema.tables

\* C30: on a schema whose foreign keys all name existing tables by their
\* stored spelling, a table B other than A is in get_valid_join_paths(A) if
\* and only if A is in get_valid_join_paths(B), and A is in its own result
\* only if one of its columns has a foreign key to A itself.
C30_JoinPathsSymmetric ==
  (PathsReady /\ WellFormed /\ arg \in DOMAIN schema.tables) =>
    /\ \A B \in DOMAIN schema.tables \ { arg } :
         \A back \in get_valid_join_paths(B, schema) :
           B \in Range(result) <=> arg \in Range(back)
    /\ arg \in Range(result) =>
         \E fk \in ForeignKeysOf(arg) : ForeignKeyTable(fk) = arg

\* C30 happens: regions declares no foreign key and customers names it;
\* get_valid_join_paths(regions) returned customers alone.
C30_Witness ==
  /\ PathsReady
  /\ schema = ShopSchema
  /\ arg = W("regions")
  /\ result = << W("customers") >>

====
